---- MODULE Spec2Model ----
(***************************************************************************)
(* A model of the request engine of @periodic/strontium                    *)
(* (src/src/requestEngine.ts) and of the primitives it composes: the       *)
(* per-request state machine, the retry policy, the circuit breaker, the   *)
(* in-flight dedup map and the idempotency registry.                       *)
(*                                                                         *)
(* A request() call is a coroutine.  Each action below is one resumption   *)
(* of it: the code that runs from one `await` to the next.  Concurrent     *)
(* calls interleave exactly at those awaits (single-threaded event loop).  *)
(***************************************************************************)
EXTENDS Integers, Sequences, FiniteSets, TLC

(***************************************************************************)
(* Bounds of the model.                                                    *)
(***************************************************************************)
NumReq == 2          \* request() calls whose records exist at one time
MaxTime == 2         \* the clock (Date.now()) runs over 0..MaxTime
MaxAttempts == 2     \* retry.maxAttempts is configured in 1..MaxAttempts
FailureThreshold == 2   \* circuitBreaker.failureThreshold of the clients
ResetTimeoutMs == 1     \* circuitBreaker.resetTimeoutMs of the clients

MaxGenerated == 2   \* calls of generateIdempotencyKey() in one behaviour
MaxLeak == 1        \* inFlight is followed down to -MaxLeak
ScaledCap == 1      \* the in-flight cap of SpecCap
ScaledDedupeSize == 1   \* the smaller dedup map size of SpecDedupe
MaxHalfOpenCalls == 2   \* halfOpenMaxCalls of SpecBreaker is in 1..MaxHalfOpenCalls
MaxFailures == 4        \* SpecBreaker follows the failure counter up to MaxFailures
MaxMapSize == 2         \* the dedup map size of SpecDedupeMap is in 1..MaxMapSize
MaxPromises == 4        \* set() calls in one behaviour of SpecDedupeMap
MaxDelayMs == 6         \* baseDelayMs and maxDelayMs of SpecDelay are in 0..MaxDelayMs
RandomSteps == 4        \* Math.random() gives k / RandomSteps, k in 0..RandomSteps-1

(***************************************************************************)
(* Program constants.                                                      *)
(***************************************************************************)
MAX_CONCURRENT_REQUESTS == 100
MAX_DEDUPE_MAP_SIZE == 1000
DEFAULT_MAX_ATTEMPTS == 3

Req == 1..NumReq
Clients == {"A", "B"}

(***************************************************************************)
(* Optional values (undefined / null in the source) are sequences of       *)
(* length at most one.                                                     *)
(***************************************************************************)
None == <<>>
Some(v) == <<v>>
IsSome(o) == Len(o) = 1
Get(o) == o[1]

(***************************************************************************)
(* core/stateMachine.ts                                                    *)
(***************************************************************************)
RequestState == {"IDLE", "PENDING", "RETRYING", "SUCCESS", "ERROR", "CANCELLED"}

ALLOWED_TRANSITIONS ==
  [s \in RequestState |->
     CASE s = "IDLE"     -> {"PENDING", "CANCELLED"}
       [] s = "PENDING"  -> {"SUCCESS", "ERROR", "RETRYING", "CANCELLED"}
       [] s = "RETRYING" -> {"PENDING", "SUCCESS", "ERROR", "CANCELLED"}
       [] OTHER          -> {}]

\* A transition that throws for a pair outside the table after it has
\* assigned the state.  C21 distinguishes transition from it.
transitionAssignsFirst(state, next) ==
  [state |-> next, threw |-> next \notin ALLOWED_TRANSITIONS[state]]

\* StateMachine.transition: the new state, and whether the call threw
\* DeterministicStateError (the state is then unchanged).
transition(state, next) ==
  IF next \in ALLOWED_TRANSITIONS[state]
  THEN [state |-> next, threw |-> FALSE]
  ELSE [state |-> state, threw |-> TRUE]

isTerminal(state) == state \in {"SUCCESS", "ERROR", "CANCELLED"}

(***************************************************************************)
(* resilience/circuitBreaker.ts.  A breaker is a record; `conf` is its     *)
(* CircuitBreakerConfig and `t` the value of Date.now().                   *)
(***************************************************************************)
DEFAULT_CIRCUIT_BREAKER_CONFIG ==
  [failureThreshold |-> 5, resetTimeoutMs |-> 60000, halfOpenMaxCalls |-> 1]

NewCircuitBreaker ==
  [state |-> "CLOSED", failures |-> 0, halfOpenCalls |-> 0, lastOpenedAt |-> 0]

\* A check() that never leaves OPEN.  C12 distinguishes check from it.
checkStaysOpen(b, conf, t) ==
  IF b.state = "OPEN" THEN [b |-> b, ok |-> FALSE] ELSE [b |-> b, ok |-> TRUE]

\* A check() that does not count the calls it admits in HALF_OPEN.  C28
\* distinguishes check from it.
checkUncounted(b, conf, t) ==
  IF b.state = "OPEN" /\ ~(t - b.lastOpenedAt >= conf.resetTimeoutMs)
  THEN [b |-> b, ok |-> FALSE]
  ELSE LET b1 == IF b.state = "OPEN"
                 THEN [b EXCEPT !.state = "HALF_OPEN", !.halfOpenCalls = 0]
                 ELSE b
       IN IF b1.state = "HALF_OPEN"
          THEN IF b1.halfOpenCalls >= conf.halfOpenMaxCalls
               THEN [b |-> b1, ok |-> FALSE]
               ELSE [b |-> b1, ok |-> TRUE]
          ELSE [b |-> b1, ok |-> TRUE]

\* check(): [b |-> the breaker afterwards, ok |-> FALSE iff CircuitOpenError]
check(b, conf, t) ==
  IF b.state = "OPEN" /\ ~(t - b.lastOpenedAt >= conf.resetTimeoutMs)
  THEN [b |-> b, ok |-> FALSE]
  ELSE LET b1 == IF b.state = "OPEN"
                 THEN [b EXCEPT !.state = "HALF_OPEN", !.halfOpenCalls = 0]
                 ELSE b
       IN IF b1.state = "HALF_OPEN"
          THEN IF b1.halfOpenCalls >= conf.halfOpenMaxCalls
               THEN [b |-> b1, ok |-> FALSE]
               ELSE [b |-> [b1 EXCEPT !.halfOpenCalls = @ + 1], ok |-> TRUE]
          ELSE [b |-> b1, ok |-> TRUE]

\* A recordSuccess that closes a HALF_OPEN breaker with the failures it
\* had counted.  C39 distinguishes recordSuccess from it.
recordSuccessKeepsFailures(b) ==
  IF b.state = "HALF_OPEN" THEN [b EXCEPT !.state = "CLOSED"]
  ELSE IF b.state = "CLOSED" THEN [b EXCEPT !.failures = 0]
  ELSE b

\* A recordSuccess that leaves the counter of a CLOSED breaker.  C19
\* distinguishes recordSuccess from it.
recordSuccessKeepsCount(b) ==
  IF b.state = "HALF_OPEN" THEN [b EXCEPT !.state = "CLOSED", !.failures = 0]
  ELSE b

recordSuccess(b) ==
  IF b.state = "HALF_OPEN" THEN [b EXCEPT !.state = "CLOSED", !.failures = 0]
  ELSE IF b.state = "CLOSED" THEN [b EXCEPT !.failures = 0]
  ELSE b

\* A recordFailure that opens the breaker one failure late.  C11
\* distinguishes recordFailure from it.
recordFailureLate(b, conf, t) ==
  LET b1 == [b EXCEPT !.failures = @ + 1]
  IN IF b1.state = "HALF_OPEN"
     THEN [b1 EXCEPT !.state = "OPEN", !.lastOpenedAt = t]
     ELSE IF b1.failures > conf.failureThreshold
          THEN [b1 EXCEPT !.state = "OPEN", !.lastOpenedAt = t]
          ELSE b1

recordFailure(b, conf, t) ==
  LET b1 == [b EXCEPT !.failures = @ + 1]
  IN IF b1.state = "HALF_OPEN"
     THEN [b1 EXCEPT !.state = "OPEN", !.lastOpenedAt = t]
     ELSE IF b1.failures >= conf.failureThreshold
          THEN [b1 EXCEPT !.state = "OPEN", !.lastOpenedAt = t]
          ELSE b1

(***************************************************************************)
(* resilience/retry.ts.  retryOn is a record: whether the tags 'network'   *)
(* and '5xx' are members, and the set of numeric members.  statusCode is   *)
(* None for null.                                                          *)
(***************************************************************************)
DEFAULT_RETRY_CONFIG ==
  [enabled |-> TRUE, maxAttempts |-> DEFAULT_MAX_ATTEMPTS,
   retryOn |-> [network |-> TRUE, fivexx |-> TRUE, codes |-> {}]]

\* A shouldRetry that still retries at attempt = maxAttempts.  C22
\* distinguishes shouldRetry from it.
shouldRetryInclusive(config, statusCode, attempt) ==
  IF ~config.enabled THEN FALSE
  ELSE IF attempt > config.maxAttempts THEN FALSE
  ELSE \/ config.retryOn.network /\ statusCode = None
       \/ config.retryOn.fivexx /\ IsSome(statusCode) /\ Get(statusCode) >= 500
       \/ IsSome(statusCode) /\ Get(statusCode) \in config.retryOn.codes

shouldRetry(config, statusCode, attempt) ==
  IF ~config.enabled THEN FALSE
  ELSE IF attempt >= config.maxAttempts THEN FALSE
  ELSE \/ config.retryOn.network /\ statusCode = None
       \/ config.retryOn.fivexx /\ IsSome(statusCode) /\ Get(statusCode) >= 500
       \/ IsSome(statusCode) /\ Get(statusCode) \in config.retryOn.codes

(***************************************************************************)
(* protocol/payloadHash.ts.  A body is None (undefined) or Some(record);   *)
(* JSON.stringify writes the record's fields as text.  SHA-256 is taken to *)
(* be collision free: the digest of a text is the text, tagged.            *)
(***************************************************************************)
JSONstringify(v) == "{\"a\":" \o ToString(v.a) \o "}"

sha256(data) == "sha256(" \o data \o ")"

computePayloadHash(body) ==
  sha256(IF body = None THEN "" ELSE JSONstringify(Get(body)))

computeDedupeKey(method, url, bodyHash) ==
  method \o ":" \o url \o ":" \o bodyHash

\* An enforceIntegrity that stores the hash of every request and rejects
\* none: the last body wins.  C8 distinguishes enforceIntegrity from it.
enforceIntegrityLastWins(reg, idempotencyKey, body) ==
  LET hash == computePayloadHash(body)
  IN [reg |-> [k \in DOMAIN reg \cup {idempotencyKey} |->
                 IF k = idempotencyKey THEN hash ELSE reg[k]],
      hash |-> hash, ok |-> TRUE]

\* enforceIntegrity on registry `reg` (a function from the keys seen so far
\* to their hashes): [reg |-> the registry afterwards, hash |-> the hash,
\* ok |-> FALSE iff IntegrityViolationError]
enforceIntegrity(reg, idempotencyKey, body) ==
  LET hash == computePayloadHash(body)
  IN IF idempotencyKey \in DOMAIN reg /\ reg[idempotencyKey] # hash
     THEN [reg |-> reg, hash |-> hash, ok |-> FALSE]
     ELSE [reg |-> [k \in DOMAIN reg \cup {idempotencyKey} |->
                      IF k = idempotencyKey THEN hash ELSE reg[k]],
           hash |-> hash, ok |-> TRUE]

\* generateIdempotencyKey(): a fresh key at every call (time + random);
\* n is the number of keys generated before.
generateIdempotencyKey(n) == "idem_" \o ToString(n)

(***************************************************************************)
(* resilience/dedupe.ts.  The map is a sequence of entries in insertion    *)
(* order (a JS Map iterates in insertion order); an entry is the key and   *)
(* the request whose promise it holds.                                     *)
(***************************************************************************)
RECURSIVE SeqWithout(_, _)
SeqWithout(s, key) ==
  IF s = <<>> THEN <<>>
  ELSE IF Head(s).key = key THEN SeqWithout(Tail(s), key)
  ELSE <<Head(s)>> \o SeqWithout(Tail(s), key)

DedupeHas(map, key) == \E i \in 1..Len(map) : map[i].key = key

\* DedupeMap.get: the request whose promise is stored under key
DedupeGet(map, key) ==
  map[CHOOSE i \in 1..Len(map) : map[i].key = key].owner

\* A settlement callback that leaves the map as it is.  C29 distinguishes
\* DedupeDelete from it.
DedupeKeep(map, key) == map

DedupeDelete(map, key) == SeqWithout(map, key)

\* A set() that, on a full map, drops the entry inserted last.  C30
\* distinguishes DedupeSet from it.
DedupeSetDropsNewest(map, key, r, max) ==
  LET m1 == IF Len(map) >= max /\ Len(map) > 0
            THEN SubSeq(map, 1, Len(map) - 1) ELSE map
  IN IF DedupeHas(m1, key)
     THEN [i \in 1..Len(m1) |-> IF m1[i].key = key THEN [key |-> key, owner |-> r] ELSE m1[i]]
     ELSE Append(m1, [key |-> key, owner |-> r])

\* DedupeMap.set of r's promise, up to the registration of the settlement
\* callback (which is Commit's); max is MAX_DEDUPE_MAP_SIZE.  The map is
\* kept in insertion order of its keys, as a Map is: `keys().next().value`
\* is the key of the head, `if (firstKey)` passes for a key that is not
\* the empty string, and a set() of a key the map has replaces the promise
\* where the key stands.
DedupeSet(map, key, r, max) ==
  LET m1 == IF Len(map) >= max /\ Len(map) > 0 /\ Head(map).key # ""
            THEN Tail(map) ELSE map
  IN IF DedupeHas(m1, key)
     THEN [i \in 1..Len(m1) |-> IF m1[i].key = key THEN [key |-> key, owner |-> r] ELSE m1[i]]
     ELSE Append(m1, [key |-> key, owner |-> r])

(***************************************************************************)
(* State.                                                                  *)
(*   config                the configuration each client was built with    *)
(*   req                   one record per request() call (see NewRequest)  *)
(*   client                per client: inFlight, circuitBreaker, dedupeMap *)
(*   idempotencyKeyHashes  the module-level map of payloadHash.ts          *)
(*   generated             how many keys generateIdempotencyKey() has made *)
(*   now                   Date.now()                                      *)
(*   capacity              MAX_CONCURRENT_REQUESTS and MAX_DEDUPE_MAP_SIZE *)
(*                         (never changed; the capacity specifications     *)
(*                         start with scaled-down values)                  *)
(*   history               kept for the properties, never read by an       *)
(*                         action's guard or effect: per idempotency key   *)
(*                         the body of the first request that carried it   *)
(*                         to the transport and of the first that passed   *)
(*                         enforceIntegrity with it, and per               *)
(*                         client the registry that client would have in   *)
(*                         a process of its own and the number of failed   *)
(*                         attempts since the last successful one          *)
(***************************************************************************)
(***************************************************************************)
(* hooks/lifecycle.ts.  A registered hook is modelled by what a call of it *)
(* can do: return, throw, or return a promise that rejects.                *)
(***************************************************************************)
HookNames ==
  {"onBeforeRequest", "onAfterResponse", "onRetry", "onCircuitOpen", "onError", "onCancel"}

HookBehaviours == {"returns", "throws", "rejects"}

\* `private hooks: Hooks = {}`
NoHooks == [n \in HookNames |-> None]

\* A runHook without the try/catch.  C16 distinguishes runHook from it.
runHookUncaught(fn, does) ==
  IF fn = None THEN "resolved"
  ELSE IF does = "returns" THEN "resolved" ELSE "rejected"

\* runHook(fn, ...args): how the promise it returns settles when the call
\* of fn does `does`.
runHook(fn, does) ==
  IF fn = None THEN "resolved"
  ELSE IF does = "returns" THEN "resolved"
  ELSE "resolved"

\* createHookRunner(hooks)[name]: what one call of the runner's entry can
\* meet inside runHook.
Invocations(hooks, name) ==
  IF hooks[name] = None THEN {"returns"} ELSE Get(hooks[name])

\* use(hooks): `this.hooks = { ...this.hooks, ...hooks }`
use(conf, hooks) ==
  [conf EXCEPT !.hooks = [n \in HookNames |->
                            IF hooks[n] = None THEN @[n] ELSE hooks[n]]]

VARIABLES config, capacity, req, client, idempotencyKeyHashes, generated, now,
          history

vars == <<config, capacity, req, client, idempotencyKeyHashes, generated, now,
          history>>

\* The global fetch, and transport/fetchTransport.js: the default
\* transport is fetch.
fetch == "fetch"
defaultTransport == fetch

\* new StrontiumClient(cfg): absent options take their defaults.
StrontiumClient(cfg) ==
  [retryConfig |->
     [enabled |-> DEFAULT_RETRY_CONFIG.enabled,
      maxAttempts |-> IF IsSome(cfg.maxAttempts) THEN Get(cfg.maxAttempts)
                      ELSE DEFAULT_RETRY_CONFIG.maxAttempts,
      retryOn |-> DEFAULT_RETRY_CONFIG.retryOn],
   circuitBreaker |->
     [failureThreshold |-> IF IsSome(cfg.failureThreshold) THEN Get(cfg.failureThreshold)
                           ELSE DEFAULT_CIRCUIT_BREAKER_CONFIG.failureThreshold,
      resetTimeoutMs |-> IF IsSome(cfg.resetTimeoutMs) THEN Get(cfg.resetTimeoutMs)
                         ELSE DEFAULT_CIRCUIT_BREAKER_CONFIG.resetTimeoutMs,
      halfOpenMaxCalls |-> DEFAULT_CIRCUIT_BREAKER_CONFIG.halfOpenMaxCalls],
   dedupe |-> IF IsSome(cfg.dedupe) THEN Get(cfg.dedupe) ELSE TRUE,
   protocolMode |-> IF IsSome(cfg.protocolMode) THEN Get(cfg.protocolMode) ELSE "standard",
   mode |-> IF IsSome(cfg.mode) THEN Get(cfg.mode) ELSE "strict",
   transport |-> IF IsSome(cfg.transport) THEN Get(cfg.transport) ELSE defaultTransport,
   hooks |-> NoHooks]

NewClientState ==
  [inFlight |-> 0, circuitBreaker |-> NewCircuitBreaker, dedupeMap |-> <<>>]

\* The settled value of a call: fulfilled with a response or rejected with
\* an error.  `by` is the call whose execution built the response object.
NoResult ==
  [state |-> "pending", code |-> "", status |-> 0, attempt |-> 0,
   attempts |-> 0, lastError |-> "", by |-> 0]
Fulfilled(r, status, attempt) ==
  [NoResult EXCEPT !.state = "fulfilled", !.status = status, !.attempt = attempt, !.by = r]
Rejected(r, code) ==
  [NoResult EXCEPT !.state = "rejected", !.code = code, !.by = r]
RetryExhaustedError(r, attempts, lastError) ==
  [NoResult EXCEPT !.state = "rejected", !.code = "RETRY_EXHAUSTED",
                   !.attempts = attempts, !.lastError = lastError, !.by = r]

HttpError(status) == "HTTP " \o ToString(status)

NoCalls ==
  [transport |-> 0, validator |-> 0, onBeforeRequest |-> 0, onAfterResponse |-> 0,
   onRetry |-> 0, onCircuitOpen |-> 0, onError |-> 0, onCancel |-> 0]

DefaultOptions ==
  [client |-> "A", method |-> "GET", url |-> "/u", body |-> None,
   idempotencyKey |-> None, schema |-> FALSE]

\* The per-request runtime.  pc is the await the call is suspended at.
\* The last line is history kept for the properties: whether a transition
\* threw, how often the transport, the validator and each hook were
\* called, how the last attempt ended, where the call was when the caller
\* aborted and how many transport calls it had made by then, what became
\* of the integrity check of the current attempt ("accepted", "rejected",
\* "skipped" when the code did not run it) and whether the check would have
\* passed against a registry of the call's own client, whether the call's
\* entry left the dedup map while the call was in progress, how the
\* breaker stood when the current attempt began (see Gate), what the
\* transport or the decoding last answered; then ctx (line 113) and, as
\* history, the ctx.attempt that each call of onBeforeRequest was given and
\* the functions that the transport calls were made through.
NewRequest ==
  [pc |-> "idle", opts |-> DefaultOptions, machine |-> "IDLE", attempt |-> 0,
   lastError |-> "", aborted |-> FALSE, ctrlAborted |-> FALSE, status |-> 0,
   idemKey |-> "", registered |-> FALSE, owner |-> 0, pending |-> NoResult,
   res |-> NoResult,
   illegal |-> FALSE, calls |-> NoCalls, ended |-> "", abortedAt |-> "",
   callsAtAbort |-> 0, checked |-> "", isoOk |-> TRUE, lostEntry |-> FALSE,
   gate |-> "", input |-> None, ctx |-> [attempt |-> 0], beforeRequestArgs |-> <<>>,
   via |-> {}]

Conf(q) == config[q.opts.client]

\* machine.transition(next) of request record q
Go(q, next) ==
  LET t == transition(q.machine, next)
  IN [q EXCEPT !.machine = t.state, !.illegal = @ \/ t.threw]

Called(q, what) == [q EXCEPT !.calls[what] = @ + 1]

Settled(q, result) == [q EXCEPT !.pc = "done", !.res = result]

\* `await hook; throw/return result`
ThenSettle(q, hook, result) ==
  [Called(q, hook) EXCEPT !.pc = "termHook", !.pending = result]

dedupeKeyOf(q) ==
  computeDedupeKey(q.opts.method, q.opts.url, computePayloadHash(q.opts.body))

(***************************************************************************)
(* requestEngine.ts: the pieces of _executeWithRetry between two awaits.   *)
(* Each takes the request record q and the client state cl and gives the   *)
(* pair afterwards, [q |-> ..., cl |-> ...].                               *)
(***************************************************************************)

\* A loop exit that wraps the last error whatever maxAttempts is.  C20
\* distinguishes lines 323-325 from it.
LoopExitAlwaysWraps(r, q0, cl) ==
  LET q == Go(q0, "ERROR")
  IN [q |-> Settled(q, RetryExhaustedError(r, Conf(q).retryConfig.maxAttempts,
                                           q.lastError)),
      cl |-> cl]

\* Lines 322-326: the code after the attempt loop.
LoopExit(r, q0, cl) ==
  LET q == Go(q0, "ERROR")
      max == Conf(q).retryConfig.maxAttempts
  IN [q |-> Settled(q, IF max <= 1
                       THEN Rejected(r, IF q.lastError = "" THEN "Request failed"
                                        ELSE q.lastError)
                       ELSE RetryExhaustedError(r, max, q.lastError)),
      cl |-> cl]

\* How breaker b stands at time t: "shut" while it is OPEN and less than
\* resetTimeoutMs has passed since it opened, "due" when it is OPEN and
\* that time has passed, else its state.
Gate(b, conf, t) ==
  IF b.state = "OPEN"
  THEN IF t - b.lastOpenedAt < conf.resetTimeoutMs THEN "shut" ELSE "due"
  ELSE b.state

\* A hook runner that is called for the first attempt only.  C17
\* distinguishes line 134 from it.
beforeRequestFirstOnly(q) ==
  IF q.attempt = 1
  THEN [Called(q, "onBeforeRequest") EXCEPT
          !.pc = "before", !.beforeRequestArgs = Append(@, q.ctx.attempt)]
  ELSE [q EXCEPT !.pc = "before"]

\* Line 134: hookRunner.beforeRequest(ctx), awaited.
beforeRequest(q) ==
  [Called(q, "onBeforeRequest") EXCEPT
     !.pc = "before", !.beforeRequestArgs = Append(@, q.ctx.attempt)]

\* Lines 119-134: loop condition, cap check, breaker check, onBeforeRequest.
AttemptBegin(r, q0, cl, attempt) ==
  LET q == [q0 EXCEPT !.attempt = attempt, !.ctx.attempt = attempt,
                      !.gate = Gate(cl.circuitBreaker, Conf(q0).circuitBreaker, now)]
      ck == check(cl.circuitBreaker, Conf(q).circuitBreaker, now)
  IN IF ~(attempt <= Conf(q).retryConfig.maxAttempts)
     THEN LoopExit(r, q0, cl)
     ELSE IF cl.inFlight >= capacity.inFlight
     THEN [q |-> Settled(q, Rejected(r, "Max concurrent requests exceeded")), cl |-> cl]
     ELSE IF ~ck.ok
     THEN [q |-> [Called(q, "onCircuitOpen") EXCEPT !.pc = "circuitHook"],
           cl |-> [cl EXCEPT !.circuitBreaker = ck.b]]
     ELSE [q |-> beforeRequest(q),
           cl |-> [cl EXCEPT !.circuitBreaker = ck.b]]

\* Lines 111-119: a new StateMachine, IDLE -> PENDING, first attempt.
executeWithRetry(r, q, cl) ==
  AttemptBegin(r, Go([q EXCEPT !.machine = "IDLE", !.ctx = [attempt |-> 0]], "PENDING"),
               cl, 1)

\* Lines 157-176: inFlight++ and the transport call, `fetch(url, ...)`.
EnterTransport(q, cl) ==
  [q |-> [Called(q, "transport") EXCEPT !.pc = "transport", !.via = @ \cup {fetch}],
   cl |-> [cl EXCEPT !.inFlight = @ + 1]]

\* A retry that leaves out machine.transition('RETRYING').  C40
\* distinguishes RetryDance from it.
RetryDanceStaysPending(q) ==
  [Called(q, "onRetry") EXCEPT !.pc = "retryHook"]

\* machine.transition('RETRYING'); await onRetry; await backoff
RetryDance(q) ==
  [Called(Go(q, "RETRYING"), "onRetry") EXCEPT !.pc = "retryHook"]

\* A retry condition without `attempt < maxAttempts`.  C18 distinguishes
\* the conditions of lines 185-188, 272-275 and 302-306 from it.
WillRetryPastLast(q, statusCode) ==
  shouldRetry([Conf(q).retryConfig EXCEPT !.maxAttempts = @ + 1], statusCode, q.attempt)

WillRetry(q, statusCode) ==
  /\ shouldRetry(Conf(q).retryConfig, statusCode, q.attempt)
  /\ q.attempt < Conf(q).retryConfig.maxAttempts

\* Lines 182-196: a response that is not ok.
NonOkPath(r, q0, cl0, status) ==
  LET cl == [cl0 EXCEPT !.circuitBreaker =
                          recordFailure(@, Conf(q0).circuitBreaker, now)]
      q == [q0 EXCEPT !.lastError = HttpError(status)]
  IN IF WillRetry(q, Some(status))
     THEN [q |-> RetryDance(q), cl |-> cl]
     ELSE LoopExit(r, q, cl)

\* A catch block in which the deadline wins the tie with the caller's
\* abort.  C15 distinguishes lines 256-260 from it.
TimeoutPathDeadlineWins(r, q0, cl0) ==
  LET q == [q0 EXCEPT !.lastError = "TIMEOUT_ERROR"]
      cl == [cl0 EXCEPT !.circuitBreaker =
                          recordFailure(@, Conf(q0).circuitBreaker, now)]
  IN IF q.aborted /\ q.ended # "TIMEOUT_ERROR"
     THEN [q |-> ThenSettle(Go(q, "CANCELLED"), "onCancel", Rejected(r, "TIMEOUT_ERROR")),
           cl |-> cl0]
     ELSE IF WillRetry(q, None)
     THEN [q |-> RetryDance(q), cl |-> cl]
     ELSE [q |-> Settled(Go(q, "ERROR"), Rejected(r, "TIMEOUT_ERROR")), cl |-> cl]

\* Lines 252-285: TimeoutError or AbortError caught.
TimeoutPath(r, q0, cl0) ==
  LET q == [q0 EXCEPT !.lastError = "TIMEOUT_ERROR"]
      cl == [cl0 EXCEPT !.circuitBreaker =
                          recordFailure(@, Conf(q0).circuitBreaker, now)]
  IN IF q.aborted
     THEN [q |-> ThenSettle(Go(q, "CANCELLED"), "onCancel", Rejected(r, "TIMEOUT_ERROR")),
           cl |-> cl0]
     ELSE IF WillRetry(q, None)
     THEN [q |-> RetryDance(q), cl |-> cl]
     ELSE [q |-> Settled(Go(q, "ERROR"), Rejected(r, "TIMEOUT_ERROR")), cl |-> cl]

\* Lines 287-318: any other exception caught.
ErrorPath(r, q0, cl0, name) ==
  LET q == [q0 EXCEPT !.lastError = name]
      cl == [cl0 EXCEPT !.circuitBreaker =
                          recordFailure(@, Conf(q0).circuitBreaker, now)]
  IN IF q0.machine # "ERROR" /\ q0.machine # "CANCELLED"
     THEN IF name = "TypeError" /\ WillRetry(q, None)
          THEN [q |-> RetryDance(q), cl |-> cl]
          ELSE [q |-> ThenSettle(Go(q, "ERROR"), "onError", Rejected(r, name)), cl |-> cl]
     ELSE [q |-> Settled(q0, Rejected(r, name)), cl |-> cl0]

\* A validation failure that counts as a failure of the breaker.  C14
\* distinguishes lines 209-216 from it.
ValidationFailureRecorded(r, q, cl) ==
  [q |-> ThenSettle(Go(q, "ERROR"), "onError", Rejected(r, "RESPONSE_VALIDATION_ERROR")),
   cl |-> [cl EXCEPT !.circuitBreaker = recordFailure(@, Conf(q).circuitBreaker, now)]]

\* Lines 209-216 and 248: schema.parse threw.
ValidationFailurePath(r, q, cl) ==
  [q |-> ThenSettle(Go(q, "ERROR"), "onError", Rejected(r, "RESPONSE_VALIDATION_ERROR")),
   cl |-> cl]

\* What the code does when a promise settles: DedupeMap's callback deletes
\* the key it was set under, and the calls that were handed this promise
\* (request(), line 82) settle with the same value.
Commit(r, q, cl) ==
  LET settles == q.pc = "done"
      cl2 == IF settles /\ q.registered
             THEN [cl EXCEPT !.dedupeMap = DedupeDelete(@, dedupeKeyOf(q))]
             ELSE cl
      before == client[q.opts.client].dedupeMap
      Lost(x) == /\ req[x].opts.client = q.opts.client
                 /\ \E i \in 1..Len(before) : before[i].owner = x
                 /\ \A i \in 1..Len(cl2.dedupeMap) : cl2.dedupeMap[i].owner # x
  IN /\ req' = [x \in Req |->
                  IF x = r THEN q
                  ELSE LET y == IF settles /\ req[x].pc = "joined" /\ req[x].owner = r
                                THEN [req[x] EXCEPT !.pc = "done", !.res = q.res]
                                ELSE req[x]
                       IN [y EXCEPT !.lostEntry = @ \/ Lost(x)]]
     /\ client' = [client EXCEPT ![q.opts.client] = cl2]

CommitStep(r, s) == Commit(r, s.q, s.cl)

(***************************************************************************)
(* Inputs.                                                                 *)
(***************************************************************************)
ResponseOk(status) == status >= 200 /\ status <= 299

Response(statuses) == [kind : {"response"}, status : statuses, name : {""}]
Timeout == [kind |-> "timeout", status |-> 0, name |-> ""]
AbortError == [kind |-> "abort", status |-> 0, name |-> ""]
Throw(names) == [kind : {"throw"}, status : {0}, name : names]

\* What a transport call can end with: a response, the deadline of
\* withTimeout, AbortError (once the controller is aborted), an exception.
TransportOutcomes ==
  Response({200, 404, 500}) \cup {Timeout, AbortError} \cup Throw({"TypeError", "Error"})

\* What response.json() / response.text() and the validator can end with:
\* data the validator accepts or not, AbortError, an exception.
Data(valid) == [kind : {"data"}, valid : valid, name : {""}]
DecodeAbort == [kind |-> "abort", valid |-> FALSE, name |-> ""]
DecodeThrow(names) == [kind : {"throw"}, valid : {FALSE}, name : names]

DecodeOutcomes ==
  Data(BOOLEAN) \cup {DecodeAbort} \cup DecodeThrow({"SyntaxError", "TypeError"})

\* How an attempt ended, as a text
EndOf(out) ==
  CASE out.kind = "response" -> HttpError(out.status)
    [] out.kind = "timeout"  -> "TIMEOUT_ERROR"
    [] out.kind = "abort"    -> "AbortError"
    [] OTHER                 -> out.name

Bodies == {None, Some([a |-> 1]), Some([a |-> 2])}

\* The options of a request() call on client c.
Options(c, methods, urls, bodies, keys, schemas) ==
  [client : {c}, method : methods, url : urls, body : bodies,
   idempotencyKey : keys, schema : schemas]

\* The history of first uses: key k is entered with body b unless it is there.
FirstUse(first, k, b) ==
  IF k \in DOMAIN first THEN first ELSE first @@ (k :> b)

\* The history of failed attempts in a row: an attempt fails when its
\* transport call gives a response that is not 2xx, runs into the deadline
\* or throws, or when the body cannot be decoded; it succeeds when the
\* call returns a response.  A cancelled attempt and one whose response
\* the validator refuses are neither.
Streak(h, c, how) ==
  [h EXCEPT !.streak[c] = CASE how = "failure" -> @ + 1
                            [] how = "success" -> 0
                            [] OTHER -> @]

TransportVerdict(q, out) ==
  CASE out.kind = "response" /\ ~ResponseOk(out.status) -> "failure"
    [] out.kind = "timeout" /\ ~q.aborted -> "failure"
    [] out.kind = "throw" -> "failure"
    [] OTHER -> ""

DecodeVerdict(q, d, validates) ==
  CASE d.kind = "data" /\ ~(validates /\ ~d.valid) -> "success"
    [] d.kind = "throw" -> "failure"
    [] OTHER -> ""

(***************************************************************************)
(* Actions: one per resumption of a request() call.                        *)
(***************************************************************************)

\* A dedup gate that does not read retry.maxAttempts.  C6 distinguishes
\* the gate of lines 73-77 from it.
shouldDedupeWithRetries(conf, o) ==
  /\ conf.dedupe
  /\ o.method \in {"GET", "HEAD"}

\* Lines 73-77: the calls that go through the dedup map.
shouldDedupe(conf, o) ==
  /\ conf.dedupe
  /\ o.method \in {"GET", "HEAD"}
  /\ conf.retryConfig.maxAttempts <= 1

\* request(options), lines 66-99, up to its first await.
Request(r, o) ==
  /\ req[r].pc = "idle"
  /\ LET q == [req[r] EXCEPT !.opts = o]
         conf == config[o.client]
         cl == client[o.client]
     IN IF shouldDedupe(conf, o)
        THEN Commit(r, [q EXCEPT !.pc = "hash"], cl)
        ELSE CommitStep(r, executeWithRetry(r, q, cl))
  /\ UNCHANGED <<config, capacity, idempotencyKeyHashes, generated, now, history>>

\* Lines 79-95: after `await computePayloadHash(body)`.
DedupeLookup(r) ==
  /\ req[r].pc = "hash"
  /\ LET q == req[r]
         cl == client[q.opts.client]
         dedupeKey == dedupeKeyOf(q)
     IN IF DedupeHas(cl.dedupeMap, dedupeKey)
        THEN Commit(r, [q EXCEPT !.pc = "joined",
                                 !.owner = DedupeGet(cl.dedupeMap, dedupeKey)], cl)
        ELSE LET s == executeWithRetry(r, q, cl)
             IN Commit(r, [s.q EXCEPT !.registered = TRUE],
                       [s.cl EXCEPT !.dedupeMap =
                                      DedupeSet(@, dedupeKey, r, capacity.dedupe)])
  /\ UNCHANGED <<config, capacity, idempotencyKeyHashes, generated, now, history>>

\* Lines 136-161: the attempt goes on to the transport call.
BeforeRequestResumed(r) ==
  LET q0 == [req[r] EXCEPT !.ctrlAborted = FALSE]
      cl == client[q0.opts.client]
      generates == /\ Conf(q0).protocolMode = "idempotent"
                   /\ q0.opts.idempotencyKey = None
      idemKey == IF generates THEN generateIdempotencyKey(generated)
                 ELSE Get(q0.opts.idempotencyKey)
  IN /\ generates => generated < MaxGenerated
     /\ generated' = IF generates THEN generated + 1 ELSE generated
     /\ IF Conf(q0).protocolMode = "idempotent"
        THEN /\ history' = IF q0.opts.body # None THEN history
                            ELSE [history EXCEPT !.carried = FirstUse(@, idemKey, None)]
             /\ IF q0.opts.body # None
                THEN Commit(r, [q0 EXCEPT !.idemKey = idemKey, !.pc = "integrity",
                                          !.checked = ""], cl)
                ELSE CommitStep(r, EnterTransport([q0 EXCEPT !.idemKey = idemKey,
                                                            !.checked = "skipped"], cl))
        ELSE /\ CommitStep(r, EnterTransport(q0, cl))
             /\ UNCHANGED history

\* How `await hookRunner.<name>(ctx)` of call r comes back when the hook
\* does `does`.
Awaited(r, name, does) == runHook(Conf(req[r]).hooks[name], does)

\* An await on a rejected promise throws: the call rejects with what the
\* hook threw.  (runHook's promise never rejects.)
HookThrew(r) ==
  Commit(r, Settled(req[r], Rejected(r, "HookError")), client[req[r].opts.client])

\* Lines 136-161: after `await hookRunner.beforeRequest(ctx)`.
BeforeRequestDone(r) ==
  /\ req[r].pc = "before"
  /\ \E does \in Invocations(Conf(req[r]).hooks, "onBeforeRequest") :
       IF Awaited(r, "onBeforeRequest", does) = "resolved"
       THEN BeforeRequestResumed(r)
       ELSE HookThrew(r) /\ UNCHANGED <<generated, history>>
  /\ UNCHANGED <<config, capacity, idempotencyKeyHashes, now>>

\* Lines 152-161: after the await inside enforceIntegrity.
IntegrityDone(r) ==
  /\ req[r].pc = "integrity"
  /\ LET q0 == req[r]
         cl == client[q0.opts.client]
         e == enforceIntegrity(idempotencyKeyHashes, q0.idemKey, q0.opts.body)
         own == enforceIntegrity(history.isolated[q0.opts.client], q0.idemKey, q0.opts.body)
         q == [q0 EXCEPT !.checked = IF e.ok THEN "accepted" ELSE "rejected",
                         !.isoOk = own.ok]
     IN /\ idempotencyKeyHashes' = e.reg
        /\ history' = [history EXCEPT
                         !.carried = IF e.ok THEN FirstUse(@, q0.idemKey, q0.opts.body)
                                     ELSE @,
                         !.registered = IF e.ok THEN FirstUse(@, q0.idemKey, q0.opts.body)
                                        ELSE @,
                         !.isolated[q0.opts.client] = own.reg]
        /\ IF e.ok
           THEN CommitStep(r, EnterTransport(q, cl))
           ELSE Commit(r, Settled(q, Rejected(r, "INTEGRITY_VIOLATION")), cl)
  /\ UNCHANGED <<config, capacity, generated, now>>

\* Lines 167-196 and 247-319: the transport call settles.
TransportDone(r, out) ==
  /\ req[r].pc = "transport"
  /\ out.kind = "abort" => req[r].ctrlAborted
  /\ LET q == [req[r] EXCEPT !.ended = EndOf(out), !.input = Some(out)]
         cl == [client[q.opts.client] EXCEPT !.inFlight = @ - 1]
     IN CASE out.kind = "response" /\ ResponseOk(out.status) ->
               Commit(r, [q EXCEPT !.pc = "decode", !.status = out.status], cl)
          [] out.kind = "response" /\ ~ResponseOk(out.status) ->
               CommitStep(r, NonOkPath(r, q, cl, out.status))
          [] out.kind = "timeout" ->
               CommitStep(r, TimeoutPath(r, [q EXCEPT !.ctrlAborted = TRUE], cl))
          [] out.kind = "abort" ->
               CommitStep(r, TimeoutPath(r, q, cl))
          [] out.kind = "throw" ->
               CommitStep(r, ErrorPath(r, q, cl, out.name))
  /\ history' = Streak(history, req[r].opts.client, TransportVerdict(req[r], out))
  /\ UNCHANGED <<config, capacity, idempotencyKeyHashes, generated, now>>

\* A condition that runs the validator in either mode.  C24 distinguishes
\* line 205 from it.
ValidatesInAnyMode(q) == q.opts.schema

\* Line 205: `schema && this.config.mode === 'strict'`
Validates(q) == q.opts.schema /\ Conf(q).mode = "strict"

\* Lines 198-246 and 247-319: the body is decoded (and validated).
DecodeDone(r, d) ==
  /\ req[r].pc = "decode"
  /\ d.kind = "abort" => req[r].ctrlAborted
  /\ d.kind # "data" => client[req[r].opts.client].inFlight > -MaxLeak
  /\ LET q == [req[r] EXCEPT !.ended = IF d.kind = "data" THEN @ ELSE EndOf(d),
                             !.input = Some(d)]
         cl == client[q.opts.client]
         caught == [cl EXCEPT !.inFlight = @ - 1]
         validates == Validates(q)
         qv == IF validates THEN Called(q, "validator") ELSE q
     IN CASE d.kind = "data" /\ validates /\ ~d.valid ->
               CommitStep(r, ValidationFailurePath(r, qv, cl))
          [] d.kind = "data" /\ ~(validates /\ ~d.valid) ->
               Commit(r, ThenSettle(Go(qv, "SUCCESS"), "onAfterResponse",
                                    Fulfilled(r, q.status, q.attempt)),
                      [cl EXCEPT !.circuitBreaker = recordSuccess(@)])
          [] d.kind = "abort" ->
               CommitStep(r, TimeoutPath(r, q, caught))
          [] d.kind = "throw" ->
               CommitStep(r, ErrorPath(r, q, caught, d.name))
  /\ history' = Streak(history, req[r].opts.client,
                       DecodeVerdict(req[r], d, Validates(req[r])))
  /\ UNCHANGED <<config, capacity, idempotencyKeyHashes, generated, now>>

\* A breaker rejection that is retried like a failed attempt.  C13
\* distinguishes lines 129-131 from it.
CircuitOpenRetried(r) ==
  /\ req[r].pc = "circuitHook"
  /\ IF WillRetry(req[r], None)
     THEN Commit(r, RetryDance(req[r]), client[req[r].opts.client])
     ELSE CommitStep(r, LoopExit(r, req[r], client[req[r].opts.client]))
  /\ UNCHANGED <<config, capacity, idempotencyKeyHashes, generated, now, history>>

\* Lines 129-131: after `await hookRunner.onCircuitOpen(ctx)`.
CircuitOpenHookDone(r) ==
  /\ req[r].pc = "circuitHook"
  /\ \E does \in Invocations(Conf(req[r]).hooks, "onCircuitOpen") :
       IF Awaited(r, "onCircuitOpen", does) = "resolved"
       THEN Commit(r, Settled(Go(req[r], "ERROR"), Rejected(r, "CIRCUIT_OPEN")),
                   client[req[r].opts.client])
       ELSE HookThrew(r)
  /\ UNCHANGED <<config, capacity, idempotencyKeyHashes, generated, now, history>>

\* The hook that ThenSettle awaits: onAfterResponse at line 245, onCancel
\* at line 258, onError at lines 214 and 314.
TerminalHook(q) ==
  CASE q.machine = "SUCCESS" -> "onAfterResponse"
    [] q.machine = "CANCELLED" -> "onCancel"
    [] OTHER -> "onError"

\* After the await of onAfterResponse, onError or onCancel: return or throw.
TerminalHookDone(r) ==
  /\ req[r].pc = "termHook"
  /\ \E does \in Invocations(Conf(req[r]).hooks, TerminalHook(req[r])) :
       IF Awaited(r, TerminalHook(req[r]), does) = "resolved"
       THEN Commit(r, Settled(req[r], req[r].pending), client[req[r].opts.client])
       ELSE HookThrew(r)
  /\ UNCHANGED <<config, capacity, idempotencyKeyHashes, generated, now, history>>

\* After `await hookRunner.onRetry(...)`: backoff starts its timer.
RetryHookDone(r) ==
  /\ req[r].pc = "retryHook"
  /\ \E does \in Invocations(Conf(req[r]).hooks, "onRetry") :
       IF Awaited(r, "onRetry", does) = "resolved"
       THEN Commit(r, [req[r] EXCEPT !.pc = "backoff"], client[req[r].opts.client])
       ELSE HookThrew(r)
  /\ UNCHANGED <<config, capacity, idempotencyKeyHashes, generated, now, history>>

\* After `await backoff(...)`: RETRYING -> PENDING, continue, next attempt.
BackoffDone(r) ==
  /\ req[r].pc = "backoff"
  /\ CommitStep(r, AttemptBegin(r, Go(req[r], "PENDING"),
                                client[req[r].opts.client], req[r].attempt + 1))
  /\ UNCHANGED <<config, capacity, idempotencyKeyHashes, generated, now, history>>

\* The caller aborts options.signal.  The listener of line 138 aborts the
\* controller of the current attempt, if one has been created.
Abort(r) ==
  /\ req[r].pc \notin {"done", "joined"}
  /\ ~req[r].aborted
  /\ req' = [req EXCEPT ![r].aborted = TRUE,
                        ![r].ctrlAborted =
                           @ \/ req[r].pc \in {"integrity", "transport", "decode"},
                        ![r].abortedAt = req[r].pc,
                        ![r].callsAtAbort = req[r].calls.transport]
  /\ UNCHANGED <<config, capacity, client, idempotencyKeyHashes, generated, now, history>>

\* The caller has its result and drops the call's record: the slot is free
\* for another request() call.
Retire(r) ==
  /\ req[r].pc = "done"
  /\ req' = [req EXCEPT ![r] = NewRequest]
  /\ UNCHANGED <<config, capacity, client, idempotencyKeyHashes, generated, now, history>>

\* Time passes.  Date.now() is read only by the breaker, to stamp
\* lastOpenedAt and to compare the time since then with resetTimeoutMs; so
\* the clock is advanced only while some breaker is OPEN and waiting.
Tick ==
  /\ now < MaxTime
  /\ \E c \in DOMAIN client :
        /\ client[c].circuitBreaker.state = "OPEN"
        /\ now - client[c].circuitBreaker.lastOpenedAt < config[c].circuitBreaker.resetTimeoutMs
  /\ now' = now + 1
  /\ UNCHANGED <<config, capacity, req, client, idempotencyKeyHashes, generated, history>>

\* No other call is in progress or unretired: the caller awaits each call.
Quiet(r) == \A x \in Req \ {r} : req[x].pc = "idle"

InitWith(cfgs, caps) ==
  /\ config \in cfgs
  /\ capacity \in caps
  /\ req = [r \in Req |-> NewRequest]
  /\ client = [c \in DOMAIN config |-> NewClientState]
  /\ idempotencyKeyHashes = <<>>
  /\ generated = 0
  /\ now = 0
  /\ history = [carried |-> <<>>, registered |-> <<>>,
                isolated |-> [c \in DOMAIN config |-> <<>>],
                streak |-> [c \in DOMAIN config |-> 0]]

SourceCapacity ==
  [inFlight |-> MAX_CONCURRENT_REQUESTS, dedupe |-> MAX_DEDUPE_MAP_SIZE]

\* The configuration object that sets none of the options
DefaultConfig ==
  [maxAttempts |-> None, failureThreshold |-> None, resetTimeoutMs |-> None,
   dedupe |-> None, protocolMode |-> None, mode |-> None, transport |-> None]

UserConfig(maxAttempts, dedupe, protocolMode, mode) ==
  [maxAttempts : maxAttempts,
   failureThreshold : {Some(FailureThreshold)},
   resetTimeoutMs : {Some(ResetTimeoutMs)},
   dedupe : dedupe, protocolMode : protocolMode, mode : mode, transport : {None}]

(***************************************************************************)
(* Spec: one client in standard protocol mode whose caller awaits each     *)
(* call before it issues the next; every retry and validation setting,     *)
(* every outcome of the transport and of the decoding, caller aborts.      *)
(***************************************************************************)
Init ==
  InitWith([{"A"} -> {StrontiumClient(u) :
                        u \in UserConfig({Some(n) : n \in 1..MaxAttempts},
                                         {None, Some(FALSE)}, {None},
                                         {None, Some("performance")})}],
           {SourceCapacity})

Next ==
  \/ \E r \in Req :
       \/ /\ Quiet(r)
          /\ \E o \in Options("A", {"GET", "POST"}, {"/u"}, {None}, {None}, BOOLEAN) :
                Request(r, o)
       \/ DedupeLookup(r)
       \/ BeforeRequestDone(r)
       \/ \E out \in TransportOutcomes : TransportDone(r, out)
       \/ \E d \in DecodeOutcomes : DecodeDone(r, d)
       \/ CircuitOpenHookDone(r)
       \/ TerminalHookDone(r)
       \/ RetryHookDone(r)
       \/ BackoffDone(r)
       \/ Abort(r)
       \/ Retire(r)
  \/ Tick

Spec == Init /\ [][Next]_vars

\* The resumptions of one attempt of call r: the transport answers with
\* one of `statuses`, the body decodes to valid data.
Attempt(r, statuses) ==
  \/ BeforeRequestDone(r)
  \/ \E out \in Response(statuses) : TransportDone(r, out)
  \/ \E d \in Data({TRUE}) : DecodeDone(r, d)
  \/ TerminalHookDone(r)
  \/ Retire(r)

\* The resumptions that follow a failed attempt or an open breaker.
AfterFailure(r) ==
  \/ CircuitOpenHookDone(r)
  \/ RetryHookDone(r)
  \/ BackoffDone(r)

Resume(r, statuses) == Attempt(r, statuses) \/ AfterFailure(r)

(***************************************************************************)
(* SpecIdem: two clients with { protocolMode: 'idempotent' } and nothing   *)
(* else in their configuration,                                            *)
(* calls that overlap, with and without a body, with a key of the caller's *)
(* and without.  The transport answers every call with 200.                *)
(***************************************************************************)
InitIdem ==
  InitWith({[c \in Clients |->
                StrontiumClient([DefaultConfig EXCEPT !.protocolMode = Some("idempotent")])]},
           {SourceCapacity})

NextIdem ==
  \/ \E r \in Req :
       \/ \E c \in Clients :
            \E o \in Options(c, {"POST"}, {"/u"}, Bodies, {None, Some("k1")}, {FALSE}) :
               Request(r, o)
       \/ IntegrityDone(r)
       \/ Attempt(r, {200})

SpecIdem == InitIdem /\ [][NextIdem]_vars

(***************************************************************************)
(* SpecCap: one client whose calls overlap, with the in-flight cap scaled  *)
(* down to ScaledCap.                                                      *)
(***************************************************************************)
InitCap ==
  InitWith([{"A"} -> {StrontiumClient(u) :
                        u \in UserConfig({Some(n) : n \in 1..MaxAttempts},
                                         {Some(FALSE)}, {None}, {None})}],
           {[SourceCapacity EXCEPT !.inFlight = ScaledCap]})

NextCap ==
  \/ \E r \in Req :
       \/ \E o \in Options("A", {"GET"}, {"/u"}, {None}, {None}, {FALSE}) :
             Request(r, o)
       \/ Resume(r, {200, 500})
  \/ Tick

SpecCap == InitCap /\ [][NextCap]_vars

(***************************************************************************)
(* SpecDedupe: one client whose calls overlap, with every setting the      *)
(* dedup gate reads, two URLs, and the dedup map at its size in the source *)
(* or scaled down to ScaledDedupeSize.                                     *)
(***************************************************************************)
InitDedupe ==
  InitWith([{"A"} -> {StrontiumClient(u) :
                        u \in UserConfig({Some(n) : n \in 1..MaxAttempts},
                                         {None, Some(FALSE)}, {None}, {None})}],
           {SourceCapacity, [SourceCapacity EXCEPT !.dedupe = ScaledDedupeSize]})

NextDedupe ==
  \/ \E r \in Req :
       \/ \E o \in Options("A", {"GET", "POST"}, {"/u", "/v"}, {None}, {None}, {FALSE}) :
             Request(r, o)
       \/ DedupeLookup(r)
       \/ Resume(r, {200, 500})
  \/ Tick

SpecDedupe == InitDedupe /\ [][NextDedupe]_vars

(***************************************************************************)
(* SpecDefault: new StrontiumClient({ baseURL }) and nothing else, with    *)
(* identical GET calls that overlap.                                       *)
(***************************************************************************)
InitDefault ==
  InitWith([{"A"} -> {StrontiumClient(DefaultConfig)}], {SourceCapacity})

NextDefault ==
  \/ \E r \in Req :
       \/ \E o \in Options("A", {"GET"}, {"/u"}, {None}, {None}, {FALSE}) :
             Request(r, o)
       \/ Resume(r, {200, 500})
  \/ Tick

SpecDefault == InitDefault /\ [][NextDefault]_vars

(***************************************************************************)
(* SpecHooks: two clients built from the same configuration, "A" with no   *)
(* hook registered and "B" after use() of hooks that throw or reject at    *)
(* every call.  The caller of A awaits each call before the next one, and  *)
(* whatever happens to a call on A (the call itself, an answer of the      *)
(* transport or of the decoding, the end of an await, the caller's abort,  *)
(* the call being dropped) happens next to the call on B; the clock is     *)
(* shared.                                                                 *)
(***************************************************************************)
ThrowingHooks(names) ==
  [n \in HookNames |-> IF n \in names THEN Some({"throws", "rejects"}) ELSE None]

\* The call on the client without hooks and its repetition on the other.
CallOn(c) == IF c = "A" THEN 1 ELSE 2

InitHooks ==
  InitWith({[c \in Clients |-> IF c = "A" THEN StrontiumClient(u)
                               ELSE use(StrontiumClient(u), ThrowingHooks(names))] :
              u \in UserConfig({Some(n) : n \in 1..MaxAttempts}, {Some(FALSE)}, {None},
                               {None, Some("performance")}),
              names \in {HookNames, {"onBeforeRequest"}}},
           {SourceCapacity})

\* Where a call stands in _executeWithRetry.
Position(r) == <<req[r].pc, req[r].attempt, req[r].aborted>>

InStep == Position(CallOn("A")) = Position(CallOn("B"))

\* The step that the call on A made last, made by the call on B.
Repeated ==
  LET a == req[CallOn("A")]
      r == CallOn("B")
  IN CASE req[r].pc = "done" -> Retire(r)
       [] req[r].pc # "done" /\ a.aborted # req[r].aborted -> Abort(r)
       [] req[r].pc = "idle" /\ a.aborted = req[r].aborted ->
            Request(r, [a.opts EXCEPT !.client = "B"])
       [] req[r].pc = "before" /\ a.aborted = req[r].aborted -> BeforeRequestDone(r)
       [] req[r].pc = "transport" /\ a.aborted = req[r].aborted ->
            TransportDone(r, Get(a.input))
       [] req[r].pc = "decode" /\ a.aborted = req[r].aborted ->
            DecodeDone(r, Get(a.input))
       [] req[r].pc = "circuitHook" /\ a.aborted = req[r].aborted -> CircuitOpenHookDone(r)
       [] req[r].pc = "termHook" /\ a.aborted = req[r].aborted -> TerminalHookDone(r)
       [] req[r].pc = "retryHook" /\ a.aborted = req[r].aborted -> RetryHookDone(r)
       [] req[r].pc = "backoff" /\ a.aborted = req[r].aborted -> BackoffDone(r)
       [] OTHER -> FALSE

NextHooks ==
  \/ \E o \in Options("A", {"POST"}, {"/u"}, {None}, {None}, BOOLEAN) :
        InStep /\ Request(CallOn("A"), o)
  \/ InStep /\ BeforeRequestDone(CallOn("A"))
  \/ \E out \in TransportOutcomes : InStep /\ TransportDone(CallOn("A"), out)
  \/ \E d \in DecodeOutcomes : InStep /\ DecodeDone(CallOn("A"), d)
  \/ InStep /\ CircuitOpenHookDone(CallOn("A"))
  \/ InStep /\ TerminalHookDone(CallOn("A"))
  \/ InStep /\ RetryHookDone(CallOn("A"))
  \/ InStep /\ BackoffDone(CallOn("A"))
  \/ InStep /\ Abort(CallOn("A"))
  \/ InStep /\ Retire(CallOn("A"))
  \/ InStep /\ Tick
  \/ ~InStep /\ Repeated

SpecHooks == InitHooks /\ [][NextHooks]_vars

(***************************************************************************)
(* SpecMachine: StateMachine objects on their own.  req[r].machine is the  *)
(* state of machine r, req[r].illegal whether a transition of it has       *)
(* thrown; history holds the last call of transition(): the machine, its   *)
(* state before, the argument and whether the call threw.                  *)
(***************************************************************************)
InitMachine ==
  /\ config = [c \in {"A"} |-> StrontiumClient(DefaultConfig)]
  /\ capacity = SourceCapacity
  /\ req = [r \in Req |-> NewRequest]
  /\ client = [c \in DOMAIN config |-> NewClientState]
  /\ idempotencyKeyHashes = <<>>
  /\ generated = 0
  /\ now = 0
  /\ history = [call |-> None]

\* new StateMachine()
NewStateMachine(r) ==
  /\ req' = [req EXCEPT ![r] = NewRequest]
  /\ history' = [call |-> None]
  /\ UNCHANGED <<config, capacity, client, idempotencyKeyHashes, generated, now>>

\* machine r: transition(next)
Transition(r, next) ==
  /\ req' = [req EXCEPT ![r] = Go(req[r], next)]
  /\ history' = [call |-> Some([machine |-> r, from |-> req[r].machine, to |-> next,
                               threw |-> transition(req[r].machine, next).threw])]
  /\ UNCHANGED <<config, capacity, client, idempotencyKeyHashes, generated, now>>

NextMachine ==
  \E r \in Req :
    \/ NewStateMachine(r)
    \/ \E next \in RequestState : Transition(r, next)

SpecMachine == InitMachine /\ [][NextMachine]_vars

(***************************************************************************)
(* SpecRetry: shouldRetry on its own.  history holds the arguments of a    *)
(* call, the RetryConfig, the status code (None for null) and the attempt, *)
(* and then what the call returned.                                        *)
(***************************************************************************)
RetryConfigs ==
  [enabled : BOOLEAN, maxAttempts : 0..(MaxAttempts + 1),
   retryOn : [network : BOOLEAN, fivexx : BOOLEAN, codes : SUBSET {404, 503}]]

StatusCodes == {None} \cup {Some(s) : s \in {200, 404, 499, 500, 503}}

InitRetry ==
  /\ config = [c \in {"A"} |-> StrontiumClient(DefaultConfig)]
  /\ capacity = SourceCapacity
  /\ req = [r \in Req |-> NewRequest]
  /\ client = [c \in DOMAIN config |-> NewClientState]
  /\ idempotencyKeyHashes = <<>>
  /\ generated = 0
  /\ now = 0
  /\ history \in [config : RetryConfigs, statusCode : StatusCodes,
                  attempt : 0..(MaxAttempts + 1), returned : {None}]

\* shouldRetry(config, error, statusCode, attempt)
ShouldRetryCall ==
  /\ history.returned = None
  /\ history' = [history EXCEPT
                   !.returned = Some(shouldRetry(history.config, history.statusCode,
                                                 history.attempt))]
  /\ UNCHANGED <<config, capacity, req, client, idempotencyKeyHashes, generated, now>>

NextRetry == ShouldRetryCall

SpecRetry == InitRetry /\ [][NextRetry]_vars

(***************************************************************************)
(* SpecTransport: one client built with or without a transport of the      *)
(* caller's, whose caller awaits each call before it issues the next.      *)
(***************************************************************************)
InitTransport ==
  InitWith([{"A"} -> {StrontiumClient([u EXCEPT !.transport = t]) :
                        u \in UserConfig({Some(n) : n \in 1..MaxAttempts},
                                         {Some(FALSE)}, {None}, {None}),
                        t \in {None, Some("custom")}}],
           {SourceCapacity})

NextTransport ==
  \/ \E r \in Req :
       \/ /\ Quiet(r)
          /\ \E o \in Options("A", {"GET", "POST"}, {"/u"}, {None}, {None}, {FALSE}) :
                Request(r, o)
       \/ Resume(r, {200, 500})
  \/ Tick

SpecTransport == InitTransport /\ [][NextTransport]_vars

(***************************************************************************)
(* SpecBreaker: one CircuitBreaker, client["A"].circuitBreaker, whose      *)
(* check(), recordSuccess() and recordFailure() are called in any order as *)
(* time passes.  history counts the check() calls admitted since the       *)
(* breaker last entered HALF_OPEN and holds the last check(): the state    *)
(* and that count before it, and whether it returned.                      *)
(***************************************************************************)
InitBreaker ==
  /\ config \in [{"A"} -> {[StrontiumClient(DefaultConfig) EXCEPT !.circuitBreaker = conf] :
                             conf \in [failureThreshold : 1..FailureThreshold,
                                       resetTimeoutMs : {ResetTimeoutMs},
                                       halfOpenMaxCalls : 1..MaxHalfOpenCalls]}]
  /\ capacity = SourceCapacity
  /\ req = [r \in Req |-> NewRequest]
  /\ client = [c \in DOMAIN config |-> NewClientState]
  /\ idempotencyKeyHashes = <<>>
  /\ generated = 0
  /\ now = 0
  /\ history = [admitted |-> 0, check |-> None]

\* The count of admitted calls after a call that took the breaker from b
\* to b2: it starts again when the state changes.
Admitted(b, b2, ok) ==
  IF b2.state # b.state
  THEN IF b2.state = "HALF_OPEN" /\ ok THEN 1 ELSE 0
  ELSE IF b2.state = "HALF_OPEN" /\ ok THEN history.admitted + 1 ELSE history.admitted

\* circuitBreaker.check()
CheckCall ==
  LET b == client["A"].circuitBreaker
      ck == check(b, config["A"].circuitBreaker, now)
  IN /\ client' = [client EXCEPT !["A"].circuitBreaker = ck.b]
     /\ history' = [admitted |-> Admitted(b, ck.b, ck.ok),
                    check |-> Some([from |-> b.state, before |-> history.admitted,
                                    ok |-> ck.ok])]
     /\ UNCHANGED <<config, capacity, req, idempotencyKeyHashes, generated, now>>

\* circuitBreaker.recordSuccess()
RecordSuccessCall ==
  LET b == client["A"].circuitBreaker
      b2 == recordSuccess(b)
  IN /\ client' = [client EXCEPT !["A"].circuitBreaker = b2]
     /\ history' = [admitted |-> Admitted(b, b2, FALSE), check |-> None]
     /\ UNCHANGED <<config, capacity, req, idempotencyKeyHashes, generated, now>>

\* circuitBreaker.recordFailure()
RecordFailureCall ==
  LET b == client["A"].circuitBreaker
      b2 == recordFailure(b, config["A"].circuitBreaker, now)
  IN /\ b.failures < MaxFailures
     /\ client' = [client EXCEPT !["A"].circuitBreaker = b2]
     /\ history' = [admitted |-> Admitted(b, b2, FALSE), check |-> None]
     /\ UNCHANGED <<config, capacity, req, idempotencyKeyHashes, generated, now>>

\* Date.now() advances.
Later ==
  /\ now < MaxTime
  /\ now' = now + 1
  /\ UNCHANGED <<config, capacity, req, client, idempotencyKeyHashes, generated, history>>

NextBreaker ==
  \/ CheckCall
  \/ RecordSuccessCall
  \/ RecordFailureCall
  \/ Later

SpecBreaker == InitBreaker /\ [][NextBreaker]_vars

(***************************************************************************)
(* SpecDedupeMap: one DedupeMap, of size 1..MaxMapSize, under any sequence *)
(* of set() calls and settlements of the promises it was given.  The keys  *)
(* are keys that request() computes.  history has the number of promises   *)
(* made, the settlement callbacks that have not run yet, for each key the  *)
(* set() call that inserted it (0 before the first), and the last set().   *)
(***************************************************************************)
DedupeKeys ==
  {computeDedupeKey(m, u, computePayloadHash(None)) :
     m \in {"GET", "HEAD"}, u \in {"/u", "/v"}}

InitDedupeMap ==
  /\ config = [c \in {"A"} |-> StrontiumClient(DefaultConfig)]
  /\ capacity \in {[SourceCapacity EXCEPT !.dedupe = n] : n \in 1..MaxMapSize}
  /\ req = [r \in Req |-> NewRequest]
  /\ client = [c \in DOMAIN config |-> NewClientState]
  /\ idempotencyKeyHashes = <<>>
  /\ generated = 0
  /\ now = 0
  /\ history = [made |-> 0, callbacks |-> {},
                insertedAt |-> [k \in DedupeKeys |-> 0], set |-> None]

\* dedupeMap.set(key, promise) with a promise that has not been given to
\* the map before; its `promise.then` registers the callback.
SetCall(key) ==
  LET map == client["A"].dedupeMap
      promise == history.made + 1
      map2 == DedupeSet(map, key, promise, capacity.dedupe)
      \* the key is in the map and is not the one that this set() deletes
      stays == \E i \in 1..Len(map) :
                 map[i].key = key /\ ~(i = 1 /\ Len(map) >= capacity.dedupe)
  IN /\ history.made < MaxPromises
     /\ client' = [client EXCEPT !["A"].dedupeMap = map2]
     /\ history' = [made |-> promise,
                    callbacks |-> history.callbacks \cup {[promise |-> promise, key |-> key]},
                    insertedAt |-> [history.insertedAt EXCEPT
                                      ![key] = IF stays THEN @ ELSE promise],
                    set |-> Some([key |-> key, promise |-> promise, before |-> map,
                                  insertedAt |-> history.insertedAt])]
     /\ UNCHANGED <<config, capacity, req, idempotencyKeyHashes, generated, now>>

\* A promise given to the map settles, fulfilled or rejected: the
\* callback of its set() runs, `this.map.delete(key)`.
SettleCall(cb) ==
  /\ cb \in history.callbacks
  /\ client' = [client EXCEPT !["A"].dedupeMap = DedupeDelete(@, cb.key)]
  /\ history' = [history EXCEPT !.callbacks = @ \ {cb}, !.set = None]
  /\ UNCHANGED <<config, capacity, req, idempotencyKeyHashes, generated, now>>

NextDedupeMap ==
  \/ \E key \in DedupeKeys : SetCall(key)
  \/ \E cb \in history.callbacks : SettleCall(cb)

SpecDedupeMap == InitDedupeMap /\ [][NextDedupeMap]_vars

(***************************************************************************)
(* SpecTimeout: one withTimeout(promise, timeoutMs, controller) of         *)
(* part_002, with the promise settling at any moment, fulfilled or         *)
(* rejected, the timer running out once Date.now() has reached the         *)
(* deadline, and a caller that may abort the controller itself.  The       *)
(* harness is the record history.harness:                                  *)
(*   timeoutMs, deadline   the argument, and when the timer is due         *)
(*   timer                 "armed", "fired" or "cleared"                   *)
(*   settled               how the returned promise settled (None before)  *)
(*   aborted               controller.signal.aborted                       *)
(*   aborts                calls of controller.abort() made by the harness *)
(* history.promise is how the promise given to withTimeout settled, and    *)
(* history.events the order in which settlement and deadline came.         *)
(***************************************************************************)
\* resolve(value) and reject(err) of the returned promise: the first call
\* settles it, a later call does nothing.
settle(settled, outcome) == IF settled = None THEN Some(outcome) ELSE settled

\* clearTimeout(timeoutId)
clearTimeout(timer) == IF timer = "armed" THEN "cleared" ELSE timer

\* Lines 8-12: the executor up to `promise.then`.
withTimeout(timeoutMs, aborted, t) ==
  [timeoutMs |-> timeoutMs, deadline |-> t + timeoutMs, timer |-> "armed",
   settled |-> None, aborted |-> aborted, aborts |-> 0]

\* Lines 9-12: the timer's callback.
onTimeout(w) ==
  [w EXCEPT !.timer = "fired", !.aborted = TRUE, !.aborts = @ + 1,
            !.settled = settle(@, [state |-> "rejected", code |-> "TIMEOUT_ERROR",
                                   timeoutMs |-> w.timeoutMs])]

\* Callbacks that leave the timer running.  C31 distinguishes onSettled
\* from it.
onSettledKeepsTimer(w, outcome) ==
  [w EXCEPT !.settled = settle(@, outcome)]

\* Lines 14-23: the callbacks given to `promise.then`.
onSettled(w, outcome) ==
  [w EXCEPT !.timer = clearTimeout(@), !.settled = settle(@, outcome)]

\* What the promise given to withTimeout can settle with
Outcomes ==
  [state : {"fulfilled"}, code : {""}, value : {200, 500}]
    \cup [state : {"rejected"}, code : {"AbortError", "TypeError"}, value : {0}]

InitTimeout ==
  /\ config = [c \in {"A"} |-> StrontiumClient(DefaultConfig)]
  /\ capacity = SourceCapacity
  /\ req = [r \in Req |-> NewRequest]
  /\ client = [c \in DOMAIN config |-> NewClientState]
  /\ idempotencyKeyHashes = <<>>
  /\ generated = 0
  /\ now \in 0..MaxTime
  /\ \E timeoutMs \in 0..MaxTime :
       history = [harness |-> withTimeout(timeoutMs, FALSE, now),
                  promise |-> None, events |-> <<>>]

\* The promise settles and its callback runs (no timer callback runs
\* between the two: the callback is a microtask).
PromiseSettles(outcome) ==
  /\ history.promise = None
  /\ history' = [harness |-> onSettled(history.harness, outcome),
                 promise |-> Some(outcome),
                 events |-> Append(history.events, "promise")]
  /\ UNCHANGED <<config, capacity, req, client, idempotencyKeyHashes, generated, now>>

\* The timer runs out: never before its deadline, and not once cleared.
TimerFires ==
  /\ history.harness.timer = "armed"
  /\ now >= history.harness.deadline
  /\ history' = [history EXCEPT !.harness = onTimeout(@),
                                !.events = Append(@, "deadline")]
  /\ UNCHANGED <<config, capacity, req, client, idempotencyKeyHashes, generated, now>>

\* The caller aborts the controller (the listener of lines 137-139).
CallerAborts ==
  /\ ~history.harness.aborted
  /\ history' = [history EXCEPT !.harness.aborted = TRUE]
  /\ UNCHANGED <<config, capacity, req, client, idempotencyKeyHashes, generated, now>>

NextTimeout ==
  \/ \E outcome \in Outcomes : PromiseSettles(outcome)
  \/ TimerFires
  \/ CallerAborts
  \/ Later

SpecTimeout == InitTimeout /\ [][NextTimeout]_vars

(***************************************************************************)
(* SpecDelay: one call of computeDelay (part_001, lines 81-105) with a     *)
(* named strategy, integer delays with maxDelayMs >= baseDelayMs and       *)
(* attempt >= 1.  Math.random() is a number of [0, 1): here one of the     *)
(* fractions k / RandomSteps.  history has the arguments, the numerator k  *)
(* and what the call returned.                                             *)
(***************************************************************************)
\* A computeDelay without the Math.min.  C32 distinguishes computeDelay
\* from it.
computeDelayUncapped(strategy, attempt, baseDelayMs, maxDelayMs, jitter, k) ==
  LET raw == CASE strategy = "fixed" -> baseDelayMs
               [] strategy = "linear" -> baseDelayMs * attempt
               [] OTHER -> baseDelayMs * 2^(attempt - 1)
  IN IF jitter THEN (raw * (RandomSteps + k)) \div (2 * RandomSteps) ELSE raw

\* computeDelay; with Math.random() = k / RandomSteps,
\* Math.floor(delay * (0.5 + Math.random() * 0.5)) is
\* floor(delay * (RandomSteps + k) / (2 * RandomSteps)).
computeDelay(strategy, attempt, baseDelayMs, maxDelayMs, jitter, k) ==
  LET raw == CASE strategy = "fixed" -> baseDelayMs
               [] strategy = "linear" -> baseDelayMs * attempt
               [] OTHER -> baseDelayMs * 2^(attempt - 1)
      delay == IF raw <= maxDelayMs THEN raw ELSE maxDelayMs
  IN IF jitter THEN (delay * (RandomSteps + k)) \div (2 * RandomSteps) ELSE delay

InitDelay ==
  /\ config = [c \in {"A"} |-> StrontiumClient(DefaultConfig)]
  /\ capacity = SourceCapacity
  /\ req = [r \in Req |-> NewRequest]
  /\ client = [c \in DOMAIN config |-> NewClientState]
  /\ idempotencyKeyHashes = <<>>
  /\ generated = 0
  /\ now = 0
  /\ history \in {h \in [strategy : {"fixed", "linear", "exponential"},
                         attempt : 1..(MaxAttempts + 1),
                         baseDelayMs : 0..MaxDelayMs, maxDelayMs : 0..MaxDelayMs,
                         jitter : BOOLEAN, random : 0..(RandomSteps - 1),
                         returned : {None}] :
                   h.maxDelayMs >= h.baseDelayMs}

\* computeDelay(strategy, attempt, baseDelayMs, maxDelayMs, jitter)
ComputeDelayCall ==
  /\ history.returned = None
  /\ history' = [history EXCEPT
                   !.returned = Some(computeDelay(history.strategy, history.attempt,
                                                  history.baseDelayMs, history.maxDelayMs,
                                                  history.jitter, history.random))]
  /\ UNCHANGED <<config, capacity, req, client, idempotencyKeyHashes, generated, now>>

NextDelay == ComputeDelayCall

SpecDelay == InitDelay /\ [][NextDelay]_vars

(***************************************************************************)
(* SpecIdemRetry: one client with { protocolMode: 'idempotent' } and       *)
(* retries, whose caller awaits each call before it issues the next; calls *)
(* with and without a body, with a key of the caller's and without; the    *)
(* transport answers 200 or 500.                                           *)
(***************************************************************************)
InitIdemRetry ==
  InitWith([{"A"} -> {StrontiumClient(u) :
                        u \in UserConfig({Some(n) : n \in 1..MaxAttempts}, {Some(FALSE)},
                                         {Some("idempotent")}, {None})}],
           {SourceCapacity})

NextIdemRetry ==
  \/ \E r \in Req :
       \/ /\ Quiet(r)
          /\ \E o \in Options("A", {"POST"}, {"/u"}, {None, Some([a |-> 1])},
                              {None, Some("k1")}, {FALSE}) :
                Request(r, o)
       \/ IntegrityDone(r)
       \/ Resume(r, {200, 500})
  \/ Tick

SpecIdemRetry == InitIdemRetry /\ [][NextIdemRetry]_vars

(***************************************************************************)
(* Properties.                                                             *)
(***************************************************************************)
\* The calls that ran _executeWithRetry themselves and have settled.
Executed(r) == req[r].pc = "done" /\ req[r].owner = 0

TerminalHooks(r) ==
  req[r].calls.onAfterResponse + req[r].calls.onError
    + req[r].calls.onCancel + req[r].calls.onCircuitOpen

\* C2: when a call has settled, exactly one of onAfterResponse, onError,
\* onCancel, onCircuitOpen has been invoked for it, exactly once.
C2_ExactlyOneTerminalHook ==
  \A r \in Req : Executed(r) => TerminalHooks(r) = 1

\* C4: once the caller has aborted the signal during the backoff sleep, the
\* call makes no further transport call, and it settles in CANCELLED with
\* onCancel fired.
C4_AbortInBackoffCancels ==
  \A r \in Req :
    req[r].abortedAt = "backoff" =>
      /\ req[r].calls.transport = req[r].callsAtAbort
      /\ req[r].pc = "done" => req[r].machine = "CANCELLED" /\ req[r].calls.onCancel = 1

\* The last attempt of r ended with a failure the retry policy retries.
RetryableEnd(r) ==
  \/ req[r].ended \in {"HTTP 500", "TypeError"}
  \/ req[r].ended = "TIMEOUT_ERROR" /\ ~req[r].aborted

\* C5: with maxAttempts > 1, a call that fails because its last permitted
\* attempt ended with a retryable failure rejects with retry-exhausted,
\* attempts = maxAttempts and lastError = the failure of that attempt.
C5_RetryExhaustedWrapsLastFailure ==
  \A r \in Req :
    (/\ Executed(r)
     /\ Conf(req[r]).retryConfig.maxAttempts > 1
     /\ req[r].attempt = Conf(req[r]).retryConfig.maxAttempts
     /\ req[r].res.state = "rejected"
     /\ RetryableEnd(r))
    => /\ req[r].res.code = "RETRY_EXHAUSTED"
       /\ req[r].res.attempts = Conf(req[r]).retryConfig.maxAttempts
       /\ req[r].res.lastError = req[r].ended

\* C1: a call's state machine starts in IDLE, and when the call has settled
\* it is in one of SUCCESS, ERROR, CANCELLED, whatever ended the call.
C1_SettlesInTerminalState ==
  \A r \in Req :
    /\ req[r].pc = "idle" => req[r].machine = "IDLE"
    /\ Executed(r) => isTerminal(req[r].machine)

\* The calls of client c that are inside the transport call
InTransport(c) == {r \in Req : req[r].pc = "transport" /\ req[r].opts.client = c}

\* C3: the attempts of one client that are inside the transport call at the
\* same time are never more than the in-flight cap, and the attempt that is
\* refused for the cap has not invoked the transport.
C3_InFlightCap ==
  /\ \A c \in DOMAIN client : Cardinality(InTransport(c)) <= capacity.inFlight
  /\ \A r \in Req :
       req[r].res.code = "Max concurrent requests exceeded"
         => req[r].calls.transport = req[r].attempt - 1

Identical(r1, r2) ==
  /\ req[r1].opts.client = req[r2].opts.client
  /\ req[r1].opts.method = req[r2].opts.method
  /\ req[r1].opts.url = req[r2].opts.url
  /\ req[r1].opts.body = req[r2].opts.body

\* The call is past request()'s dedup gate and lookup and has not settled.
InProgress(r) == req[r].pc \notin {"idle", "hash", "done"}

\* C6's three conditions, read from the configuration and the options.
Eligible(r) ==
  /\ Conf(req[r]).dedupe
  /\ req[r].opts.method \in {"GET", "HEAD"}
  /\ Conf(req[r]).retryConfig.maxAttempts <= 1

\* Two calls that run as one execution of _executeWithRetry.
Shares(r1, r2) ==
  \/ req[r1].owner = r2
  \/ req[r2].owner = r1
  \/ req[r1].owner # 0 /\ req[r1].owner = req[r2].owner

\* The call whose _executeWithRetry settles call r: r itself, or the call
\* whose promise r was handed.
Execution(r) == IF req[r].owner # 0 THEN req[r].owner ELSE r

\* A call that was handed another call's promise made no transport call
\* and, settled, has the value that call settled with.
JoinedCallsFollow ==
  \A r \in Req :
    req[r].owner # 0 =>
      /\ req[r].calls.transport = 0
      /\ req[r].pc = "joined" => Identical(r, req[r].owner) /\ InProgress(req[r].owner)
      /\ req[r].pc = "done" => req[r].res.by = req[r].owner

\* A call for which one of the three conditions is false runs on its own.
IneligibleCallsRunAlone ==
  \A r \in Req :
    (req[r].pc # "idle" /\ ~Eligible(r))
      => req[r].owner = 0 /\ ~req[r].registered /\ req[r].pc # "hash"

C7_DefaultClientDedupes ==
  \A r1, r2 \in Req :
    (/\ r1 # r2 /\ Identical(r1, r2) /\ req[r1].opts.method = "GET"
     /\ InProgress(r1) /\ InProgress(r2))
      => ~(req[r1].calls.transport > 0 /\ req[r2].calls.transport > 0)

\* C8: in idempotent mode, for requests that carry a body: the fingerprint
\* stored for a key is that of the body the key was first registered with
\* and never changes; a request is accepted exactly when its body equals
\* that body, and a request with another body is rejected with the
\* integrity violation before it has made any transport call.
C8_KeyPinsFirstBody ==
  /\ \A k \in DOMAIN idempotencyKeyHashes :
       /\ k \in DOMAIN history.registered
       /\ idempotencyKeyHashes[k] = computePayloadHash(history.registered[k])
  /\ \A r \in Req :
       /\ req[r].checked = "accepted"
            => req[r].opts.body = history.registered[req[r].idemKey]
       /\ req[r].checked = "rejected"
            => /\ req[r].opts.body # history.registered[req[r].idemKey]
               /\ req[r].pc = "done"
               /\ req[r].res.code = "INTEGRITY_VIOLATION"
               /\ req[r].calls.transport = 0

\* One key, two bodies: the call with the first body is accepted (again)
\* while the call with the other body has been rejected.
C8_Witness ==
  \E r1, r2 \in Req :
    /\ req[r1].idemKey = req[r2].idemKey
    /\ req[r1].checked = "accepted"
    /\ req[r2].checked = "rejected"
    /\ req[r1].opts.body # req[r2].opts.body

\* C9: every idempotency key a request has carried to the transport, with
\* a body or without one, is pinned to the body (or the absence of one) of
\* the first such request: no request with the key and another body gets
\* to the transport.
C9_EveryCarriedKeyPinned ==
  \A r \in Req :
    req[r].checked \in {"accepted", "skipped"}
      => req[r].opts.body = history.carried[req[r].idemKey]

\* C10: the outcome of a request's integrity check is the one it has
\* against the keys its own client has registered.
C10_ClientsIsolated ==
  \A r \in Req :
    req[r].checked \in {"accepted", "rejected"}
      => (req[r].checked = "accepted") = req[r].isoOk

\* After failureThreshold failed attempts in a row the breaker of the
\* client is open (OPEN, or HALF_OPEN once the reset timeout has passed).
OpensAtThreshold ==
  \A c \in DOMAIN client :
    history.streak[c] >= config[c].circuitBreaker.failureThreshold
      => client[c].circuitBreaker.state \in {"OPEN", "HALF_OPEN"}

\* The current attempt of r was rejected with circuit-open: onCircuitOpen
\* has fired, no transport call was made for the attempt, and the call
\* settles with CIRCUIT_OPEN in state ERROR.
RejectedCircuitOpen(r) ==
  /\ req[r].pc \in {"circuitHook", "done"}
  /\ req[r].calls.onCircuitOpen = 1
  /\ req[r].calls.transport = req[r].attempt - 1
  /\ req[r].pc = "done" => req[r].res.code = "CIRCUIT_OPEN" /\ req[r].machine = "ERROR"

AsksBreaker(r) ==
  /\ req'[r].attempt # req[r].attempt \/ req[r].pc = "idle" \/ req[r].pc = "hash"
  /\ req'[r].pc \in {"before", "circuitHook"}

\* C12: the check() of an attempt that begins when the breaker is OPEN and
\* resetTimeoutMs has passed since lastOpenedAt admits the call and leaves
\* the breaker HALF_OPEN; in HALF_OPEN the success of a call leaves the
\* breaker CLOSED with failures = 0, and the failure of an attempt leaves
\* it OPEN with lastOpenedAt = the time of the failure.
C12_HalfOpenProbe ==
  [][\A r \in Req :
       LET c == req'[r].opts.client
           b == client[c].circuitBreaker
           b2 == client'[c].circuitBreaker
       IN /\ (AsksBreaker(r) /\ req'[r].gate = "due")
               => /\ req'[r].pc = "before"
                  /\ b2.state = "HALF_OPEN"
          /\ (b.state = "HALF_OPEN" /\ req[r].machine # "SUCCESS"
                /\ req'[r].machine = "SUCCESS")
               => b2.state = "CLOSED" /\ b2.failures = 0
          /\ (b.state = "HALF_OPEN" /\ req[r].pc \in {"transport", "decode"}
                /\ history'.streak[c] = history.streak[c] + 1)
               => b2.state = "OPEN" /\ b2.lastOpenedAt = now]_vars

\* The call that was admitted when the reset timeout had passed succeeded,
\* and the breaker is CLOSED with no failure counted.
C12_Witness ==
  \E r \in Req :
    /\ req[r].gate = "due"
    /\ req[r].machine = "SUCCESS"
    /\ client[req[r].opts.client].circuitBreaker.state = "CLOSED"
    /\ client[req[r].opts.client].circuitBreaker.failures = 0

\* C13: a call whose attempt the breaker rejected, the first attempt or
\* one after retries, ends with circuit-open: onCircuitOpen fired once, the
\* attempt made no transport call and no onRetry, nothing follows the
\* rejection, and the call settles with CIRCUIT_OPEN, never with
\* retry-exhausted.
C13_BreakerRejectionEndsTheCall ==
  \A r \in Req :
    req[r].calls.onCircuitOpen > 0 =>
      /\ req[r].calls.onCircuitOpen = 1
      /\ req[r].pc \in {"circuitHook", "done"}
      /\ req[r].calls.transport = req[r].attempt - 1
      /\ req[r].calls.onRetry = req[r].attempt - 1
      /\ req[r].calls.onBeforeRequest = req[r].attempt - 1
      /\ req[r].pc = "done" => req[r].res.code = "CIRCUIT_OPEN"

\* The breaker opened on the failure of the first attempt and rejected the
\* second attempt of the same call.
C13_Witness ==
  \E r \in Req :
    /\ req[r].pc = "done"
    /\ req[r].res.code = "CIRCUIT_OPEN"
    /\ req[r].attempt = 2
    /\ req[r].calls.transport = 1
    /\ req[r].calls.onRetry = 1

\* The validator refuses the response of call r in this step.
ValidatorThrows(r) ==
  /\ req[r].pc = "decode"
  /\ req'[r].pc = "termHook"
  /\ req'[r].pending.code = "RESPONSE_VALIDATION_ERROR"

\* C14: when the validator throws on a 2xx response in strict mode, the
\* call rejects with response-validation in state ERROR, onError fires,
\* no retry and no onRetry follow the attempt, and the step leaves the
\* breaker as it was (recordFailure is not called).
C14_ValidationFailureIsNoBreakerFailure ==
  /\ [](\A r \in Req :
          (req[r].pending.code = "RESPONSE_VALIDATION_ERROR"
             /\ req[r].pc \in {"termHook", "done"})
            => /\ Conf(req[r]).mode = "strict"
               /\ req[r].machine = "ERROR"
               /\ req[r].calls.onError = 1
               /\ req[r].calls.validator = 1
               /\ req[r].calls.onRetry = req[r].attempt - 1
               /\ req[r].calls.transport = req[r].attempt
               /\ req[r].pc = "done" => req[r].res.code = "RESPONSE_VALIDATION_ERROR")
  /\ [][\A r \in Req :
          ValidatorThrows(r)
            => client'[req[r].opts.client].circuitBreaker
                 = client[req[r].opts.client].circuitBreaker]_vars

\* The validator refused the response of a retried attempt although the
\* policy would retry a failure, and the breaker still counts the failure
\* of the first attempt only.
C14_Witness ==
  \E r \in Req :
    /\ req[r].pc = "done"
    /\ req[r].res.code = "RESPONSE_VALIDATION_ERROR"
    /\ req[r].attempt = 1
    /\ Conf(req[r]).retryConfig.maxAttempts > 1
    /\ client[req[r].opts.client].circuitBreaker.failures = 0

\* An attempt of call r ends in this step by the deadline or by an abort.
EndsByTimeoutOrAbort(r) ==
  /\ req[r].pc \in {"transport", "decode"}
  /\ req'[r].pc # req[r].pc
  /\ req'[r].ended \in {"TIMEOUT_ERROR", "AbortError"}
  /\ req'[r].ended # req[r].ended \/ req[r].pc = "transport"

\* C15: when an attempt ends by deadline expiry or abort while the
\* caller's signal is aborted, the call goes to CANCELLED, onCancel fires,
\* the timeout error is what the call rejects with and no retry starts,
\* also when it is the deadline that ended the attempt.
C15_CallerAbortCancels ==
  /\ [][\A r \in Req :
          (EndsByTimeoutOrAbort(r) /\ req[r].aborted)
            => /\ req'[r].machine = "CANCELLED"
               /\ req'[r].pc = "termHook"
               /\ req'[r].calls.onCancel = req[r].calls.onCancel + 1
               /\ req'[r].calls.onRetry = req[r].calls.onRetry
               /\ req'[r].pending = Rejected(r, "TIMEOUT_ERROR")]_vars
  /\ [](\A r \in Req :
          req[r].machine = "CANCELLED"
            => /\ req[r].pc \in {"termHook", "done"}
               /\ req[r].calls.onCancel = 1
               /\ req[r].calls.onError = 0
               /\ req[r].calls.transport = req[r].attempt
               /\ req[r].calls.onRetry = req[r].attempt - 1
               /\ req[r].pc = "done" => req[r].res = Rejected(r, "TIMEOUT_ERROR"))

\* The deadline ended the first attempt of a call whose signal the caller
\* had aborted, the policy would have retried a timeout, and the call was
\* cancelled.
C15_Witness ==
  \E r \in Req :
    /\ req[r].pc = "done"
    /\ req[r].machine = "CANCELLED"
    /\ req[r].ended = "TIMEOUT_ERROR"
    /\ req[r].aborted
    /\ req[r].attempt = 1
    /\ Conf(req[r]).retryConfig.maxAttempts > 1

\* What the caller and the next call can see of call r on client c.
Observed(r, c) ==
  [result |-> [req[r].res EXCEPT !.by = 0],
   state |-> req[r].machine,
   transportCalls |-> req[r].calls.transport,
   breaker |-> client[c].circuitBreaker]

\* C16: whatever the transport answers, a call on a client whose hooks
\* throw or reject at every invocation has, after each of its steps, the
\* result or error, the machine state, the number of transport calls and
\* the breaker that the same call has on a client with no hooks.
C16_HooksOnlyObserve ==
  [][req'[CallOn("B")] # req[CallOn("B")]
       => /\ InStep'
          /\ Observed(CallOn("B"), "B")' = Observed(CallOn("A"), "A")']_vars

\* A call on the client whose hooks all throw was retried and then
\* fulfilled, as on the client without hooks: onBeforeRequest was called
\* twice, onRetry and onAfterResponse once.
C16_Witness ==
  /\ InStep
  /\ config["B"].hooks = ThrowingHooks(HookNames)
  /\ req[CallOn("B")].pc = "done"
  /\ req[CallOn("B")].res.state = "fulfilled"
  /\ req[CallOn("B")].calls.onBeforeRequest = 2
  /\ req[CallOn("B")].calls.onRetry = 1
  /\ req[CallOn("B")].calls.onAfterResponse = 1
  /\ req[CallOn("A")].res.state = "fulfilled"

\* The attempts of call r whose transport call may have been made.
Begun(r) ==
  req[r].pc \in {"before", "integrity", "transport", "decode", "retryHook", "backoff", "termHook"}

\* C17: onBeforeRequest is invoked once per attempt, before the attempt's
\* transport call and with ctx.attempt the number of the attempt counted
\* from 1, and a call never makes more transport calls than
\* retry.maxAttempts.
C17_BeforeRequestOncePerAttempt ==
  \A r \in Req :
    /\ Len(req[r].beforeRequestArgs) = req[r].calls.onBeforeRequest
    /\ \A i \in 1..Len(req[r].beforeRequestArgs) : req[r].beforeRequestArgs[i] = i
    /\ req[r].calls.transport <= req[r].calls.onBeforeRequest
    /\ req[r].calls.onBeforeRequest <= req[r].calls.transport + 1
    /\ req[r].pc \in {"transport", "decode"}
         => req[r].calls.transport = req[r].calls.onBeforeRequest
    /\ req[r].calls.onBeforeRequest <= req[r].attempt
    /\ Begun(r) => req[r].calls.onBeforeRequest = req[r].attempt
    /\ req[r].pc = "transport" => req[r].calls.transport = req[r].attempt
    /\ req[r].pc # "idle" => req[r].calls.transport <= Conf(req[r]).retryConfig.maxAttempts

\* The transport call of a second attempt is under way: the hook has been
\* called with attempt 1 and with attempt 2.
C17_Witness ==
  \E r \in Req :
    /\ req[r].pc = "transport"
    /\ req[r].attempt = 2
    /\ req[r].beforeRequestArgs = <<1, 2>>
    /\ req[r].calls.transport = 2

\* The attempt of call r that is under way ended in a failure that is not
\* the caller's doing: a non-2xx response, the deadline, an exception.
AttemptFailed(r) ==
  /\ req[r].input # None
  /\ LET i == Get(req[r].input)
     IN \/ i.kind = "response" /\ ~ResponseOk(i.status)
        \/ i.kind = "timeout" /\ req[r].machine # "CANCELLED"
        \/ i.kind = "throw"

\* C18: onRetry number k is invoked after the onBeforeRequest and the
\* failed transport call of attempt k and before anything of attempt k+1,
\* with k < retry.maxAttempts and the machine in RETRYING; it is not
\* invoked after the last attempt, a success, a validation failure, a
\* cancellation or a breaker rejection.
C18_RetryHookBetweenAttempts ==
  /\ [](\A r \in Req :
          /\ req[r].pc = "retryHook"
               => /\ req[r].machine = "RETRYING"
                  /\ ~req[r].illegal
                  /\ req[r].attempt < Conf(req[r]).retryConfig.maxAttempts
                  /\ AttemptFailed(r)
          /\ req[r].pc \in {"retryHook", "backoff"}
               => /\ req[r].calls.onRetry = req[r].attempt
                  /\ req[r].calls.onBeforeRequest = req[r].attempt
                  /\ req[r].calls.transport = req[r].attempt
          /\ req[r].pc \in {"before", "integrity", "transport", "decode",
                            "circuitHook", "termHook", "done"}
               => req[r].calls.onRetry = req[r].attempt - 1
          /\ req[r].pc # "idle"
               => req[r].calls.onRetry < Conf(req[r]).retryConfig.maxAttempts)
  /\ [][\A r \in Req :
          req'[r].calls.onRetry > req[r].calls.onRetry
            => /\ req[r].pc \in {"transport", "decode"}
               /\ req[r].machine = "PENDING"
               /\ req'[r].pc = "retryHook"
               /\ req'[r].pending = NoResult
               /\ req'[r].calls.onCircuitOpen = 0]_vars

\* onRetry is awaited after the deadline ended a first attempt.
C18_Witness ==
  \E r \in Req :
    /\ req[r].pc = "retryHook"
    /\ req[r].machine = "RETRYING"
    /\ req[r].calls.onRetry = 1
    /\ req[r].ended = "TIMEOUT_ERROR"

\* The body of the 2xx response that call r is reading decodes, in this
\* step, to data that the validator (if one runs) accepts.
BodyAccepted(r) ==
  /\ req[r].pc = "decode"
  /\ req'[r].pc # "decode"
  /\ req'[r].input # None
  /\ LET d == Get(req'[r].input)
     IN /\ d.kind = "data"
        /\ (req[r].opts.schema /\ Conf(req[r]).mode = "strict") => d.valid

\* C19: a call that is alone on its client and whose k-th transport call,
\* after k-1 failures that were retried, gets a 2xx response resolves with
\* the status of that response and attempt = k after exactly k transport
\* calls, and leaves the breaker CLOSED with failure counter 0.
C19_RetriedCallResolves ==
  /\ [](\A r \in Req :
          /\ req[r].pc = "decode"
               => /\ req[r].status = Get(req[r].input).status
                  /\ ResponseOk(req[r].status)
                  /\ req[r].calls.transport = req[r].attempt
                  /\ req[r].attempt <= Conf(req[r]).retryConfig.maxAttempts
          /\ req[r].res.state = "fulfilled"
               => /\ req[r].res = Fulfilled(r, req[r].status, req[r].attempt)
                  /\ req[r].machine = "SUCCESS"
                  /\ req[r].calls.transport = req[r].attempt
                  /\ req[r].calls.onRetry = req[r].attempt - 1
                  /\ client[req[r].opts.client].circuitBreaker.state = "CLOSED"
                  /\ client[req[r].opts.client].circuitBreaker.failures = 0)
  /\ [][\A r \in Req :
          BodyAccepted(r)
            => /\ req'[r].machine = "SUCCESS"
               /\ req'[r].pending = Fulfilled(r, req[r].status, req[r].attempt)
               /\ req'[r].calls.transport = req[r].attempt
               /\ client'[req[r].opts.client].circuitBreaker.state = "CLOSED"
               /\ client'[req[r].opts.client].circuitBreaker.failures = 0]_vars
  /\ [][\A r \in Req :
          (req[r].pc = "termHook" /\ req[r].machine = "SUCCESS" /\ req'[r].pc # "termHook")
            => req'[r].pc = "done" /\ req'[r].res = req[r].pending]_vars

\* A call on a client whose breaker opens at two failures resolved with
\* status 200 at its second attempt, after a 500: two transport calls, one
\* onRetry, and the breaker is CLOSED with no failure counted.
C19_Witness ==
  \E r \in Req :
    /\ req[r].pc = "done"
    /\ req[r].res = Fulfilled(r, 200, 2)
    /\ req[r].calls.transport = 2
    /\ req[r].calls.onRetry = 1
    /\ req[r].lastError = HttpError(500)
    /\ Conf(req[r]).circuitBreaker.failureThreshold > 1
    /\ client[req[r].opts.client].circuitBreaker.state = "CLOSED"
    /\ client[req[r].opts.client].circuitBreaker.failures = 0

\* The single attempt of call r got a response that is not 2xx.
SingleAttemptNotOk(r) ==
  /\ Conf(req[r]).retryConfig.maxAttempts <= 1
  /\ Executed(r)
  /\ req[r].input # None
  /\ Get(req[r].input).kind = "response"
  /\ ~ResponseOk(Get(req[r].input).status)

\* C20: with retry.maxAttempts <= 1, a call whose attempt gets a non-2xx
\* response makes one transport call and rejects with the error
\* 'HTTP <status>' itself, not with retry-exhausted.
C20_SingleAttemptRejectsWithHttpError ==
  \A r \in Req :
    SingleAttemptNotOk(r)
      => /\ req[r].calls.transport = 1
         /\ req[r].res = Rejected(r, HttpError(Get(req[r].input).status))
         /\ req[r].res.code # "RETRY_EXHAUSTED"

\* A call on a client with maxAttempts = 1 got a 500 and was rejected with
\* 'HTTP 500'.
C20_Witness ==
  \E r \in Req :
    /\ SingleAttemptNotOk(r)
    /\ req[r].res.code = "HTTP 500"
    /\ req[r].calls.transport = 1

\* The pairs of the transition table, written out.
TablePairs ==
  ({"IDLE"} \X {"PENDING", "CANCELLED"})
    \cup ({"PENDING"} \X {"SUCCESS", "ERROR", "RETRYING", "CANCELLED"})
    \cup ({"RETRYING"} \X {"PENDING", "SUCCESS", "ERROR", "CANCELLED"})

\* C21: transition(next) succeeds exactly for the pairs of the table and
\* then moves the machine to next; for every other pair, every pair out of
\* SUCCESS, ERROR or CANCELLED among them, it throws and leaves the state
\* as it was; isTerminal() holds exactly in SUCCESS, ERROR and CANCELLED.
C21_TransitionTable ==
  /\ \A r \in Req :
       isTerminal(req[r].machine) <=> req[r].machine \in {"SUCCESS", "ERROR", "CANCELLED"}
  /\ history.call # None
       => LET c == Get(history.call)
          IN /\ c.threw <=> <<c.from, c.to>> \notin TablePairs
             /\ c.from \in {"SUCCESS", "ERROR", "CANCELLED"} => c.threw
             /\ req[c.machine].machine = IF c.threw THEN c.from ELSE c.to
             /\ c.threw => req[c.machine].illegal

\* A machine in SUCCESS was asked to go to PENDING: the call threw and the
\* machine is in SUCCESS.
C21_Witness ==
  /\ history.call # None
  /\ Get(history.call).from = "SUCCESS"
  /\ Get(history.call).to = "PENDING"
  /\ Get(history.call).threw
  /\ req[Get(history.call).machine].machine = "SUCCESS"

\* Member m of retryOn matches the status code: 'network' a null status,
\* '5xx' a status of 500 or more, a number that very status.
Matches(retryOn, statusCode) ==
  \/ retryOn.network /\ statusCode = None
  \/ retryOn.fivexx /\ statusCode # None /\ Get(statusCode) >= 500
  \/ statusCode # None /\ Get(statusCode) \in retryOn.codes

\* C22: shouldRetry returns true exactly when the config is enabled, the
\* attempt is below maxAttempts and a member of retryOn matches the status
\* code; with a null status, exactly when enabled, attempt < maxAttempts
\* and 'network' is a member.
C22_ShouldRetryExact ==
  history.returned # None
    => LET c == history
           returned == Get(history.returned)
       IN /\ returned <=> /\ c.config.enabled
                          /\ c.attempt < c.config.maxAttempts
                          /\ Matches(c.config.retryOn, c.statusCode)
          /\ c.statusCode = None
               => (returned <=> /\ c.config.enabled
                                /\ c.attempt < c.config.maxAttempts
                                /\ c.config.retryOn.network)

\* shouldRetry returned true for status 404 on the strength of the numeric
\* member 404 alone, at the last attempt below maxAttempts.
C22_Witness ==
  /\ history.returned = Some(TRUE)
  /\ history.statusCode = Some(404)
  /\ history.config.retryOn = [network |-> FALSE, fivexx |-> FALSE, codes |-> {404}]
  /\ history.attempt + 1 = history.config.maxAttempts

\* C23: every transport call of every call goes through the transport the
\* client was configured with.
C23_CallsGoThroughConfiguredTransport ==
  \A r \in Req : req[r].via \subseteq {Conf(req[r]).transport}

\* The body of the 2xx response of call r decodes to data in this step.
BodyDecoded(r) ==
  /\ req[r].pc = "decode"
  /\ req'[r].pc # "decode"
  /\ req'[r].input # None
  /\ Get(req'[r].input).kind = "data"

\* C24: in performance mode the validator is never invoked, and a 2xx
\* response whose body decodes resolves the call in SUCCESS also when the
\* validator would throw on the data; in strict mode the validator of a
\* call that has one is invoked once for each 2xx response whose body
\* decodes, and at no other moment.
C24_PerformanceModeSkipsValidator ==
  /\ [](\A r \in Req :
          (req[r].pc # "idle" /\ Conf(req[r]).mode = "performance")
            => req[r].calls.validator = 0)
  /\ [][\A r \in Req :
          /\ (BodyDecoded(r) /\ Conf(req[r]).mode = "performance")
               => /\ req'[r].machine = "SUCCESS"
                  /\ req'[r].pending = Fulfilled(r, req[r].status, req[r].attempt)
          /\ (BodyDecoded(r) /\ Conf(req[r]).mode = "strict" /\ req[r].opts.schema)
               => req'[r].calls.validator = req[r].calls.validator + 1
          /\ (req'[r].pc # "idle" /\ ~(BodyDecoded(r) /\ req[r].opts.schema))
               => req'[r].calls.validator = req[r].calls.validator]_vars

\* A call with a validator on a client in performance mode resolved with a
\* body that the validator would have refused; the validator was not run.
C24_Witness ==
  \E r \in Req :
    /\ req[r].pc = "done"
    /\ req[r].res.state = "fulfilled"
    /\ Conf(req[r]).mode = "performance"
    /\ req[r].opts.schema
    /\ Get(req[r].input).kind = "data"
    /\ ~Get(req[r].input).valid
    /\ req[r].calls.validator = 0

\* C25: the in-flight counter of a client is the number of attempts of its
\* calls that are inside the transport call, and is never negative: each
\* attempt that reaches the transport call adds one before the call and
\* takes one off when the call completes, however the attempt goes on.
C25_InFlightCountsTransportCalls ==
  \A c \in DOMAIN client :
    /\ client[c].inFlight >= 0
    /\ client[c].inFlight
         = Cardinality({r \in Req : req[r].opts.client = c /\ req[r].pc = "transport"})

\* C26: no attempt completes successfully, and so calls recordSuccess(),
\* at a moment when the breaker of its client is OPEN.
C26_NoSuccessWhileOpen ==
  [][\A r \in Req :
       (req[r].machine # "SUCCESS" /\ req'[r].machine = "SUCCESS")
         => client[req[r].opts.client].circuitBreaker.state # "OPEN"]_vars

\* C27: every recordFailure() on a breaker is called for an attempt whose
\* transport call ended with a non-2xx response, with the deadline while
\* the caller had not aborted, or with an exception; never for an attempt
\* whose transport call returned a 2xx response, whatever the decoding and
\* the validation of its body do.
C27_FailuresComeFromTheTransport ==
  [][\A c \in DOMAIN client :
       client'[c].circuitBreaker.failures = client[c].circuitBreaker.failures + 1
         => \E r \in Req :
              /\ req[r].opts.client = c
              /\ req[r].pc = "transport"
              /\ req'[r].pc # "transport"
              /\ LET i == Get(req'[r].input)
                 IN \/ i.kind = "response" /\ ~ResponseOk(i.status)
                    \/ i.kind = "timeout" /\ ~req[r].aborted
                    \/ i.kind = "throw"]_vars

\* C28: between the moment the breaker enters HALF_OPEN and its next change
\* of state, at most halfOpenMaxCalls calls of check() are admitted, and
\* every check() after those fails with circuit-open.
C28_HalfOpenAdmitsAtMostMaxCalls ==
  LET conf == config["A"].circuitBreaker
  IN /\ client["A"].circuitBreaker.state = "HALF_OPEN"
          => history.admitted <= conf.halfOpenMaxCalls
     /\ (/\ history.check # None
         /\ Get(history.check).from = "HALF_OPEN"
         /\ Get(history.check).before >= conf.halfOpenMaxCalls)
          => ~Get(history.check).ok

\* A breaker with halfOpenMaxCalls = 2 admitted two calls in HALF_OPEN and
\* refused the next check().
C28_Witness ==
  /\ config["A"].circuitBreaker.halfOpenMaxCalls = 2
  /\ client["A"].circuitBreaker.state = "HALF_OPEN"
  /\ history.admitted = 2
  /\ history.check # None
  /\ Get(history.check).from = "HALF_OPEN"
  /\ Get(history.check).before = 2
  /\ ~Get(history.check).ok


\* The promise stored under each key of a dedup map is that of a call of
\* the same client, with that key, that went through set() and has not
\* settled.
EntriesAreInFlight ==
  \A c \in DOMAIN client :
    \A i \in 1..Len(client[c].dedupeMap) :
      LET e == client[c].dedupeMap[i]
      IN /\ req[e.owner].opts.client = c
         /\ req[e.owner].registered
         /\ req[e.owner].pc \notin {"idle", "hash", "done"}
         /\ dedupeKeyOf(req[e.owner]) = e.key

\* The step in which a call that went through set() settles, fulfilled or
\* rejected, leaves the map without the call's key.
SettlementRemovesKey ==
  \A r \in Req :
    (req[r].pc # "done" /\ req'[r].pc = "done" /\ req'[r].registered)
      => \A i \in 1..Len(client'[req'[r].opts.client].dedupeMap) :
            client'[req'[r].opts.client].dedupeMap[i].key # dedupeKeyOf(req'[r])

\* The step after the hash: the call is handed the promise of a call that
\* has not settled, or, the key not being in the map, runs
\* _executeWithRetry itself.
LookupStartsAfresh ==
  \A x \in Req :
    (req[x].pc = "hash" /\ req'[x].pc # "hash")
      => LET map == client[req[x].opts.client].dedupeMap
             held == {i \in 1..Len(map) : map[i].key = dedupeKeyOf(req[x])}
         IN IF held = {}
            THEN req'[x].owner = 0 /\ req'[x].registered
            ELSE /\ \E i \in held : req'[x].owner = map[i].owner
                 /\ req[req'[x].owner].pc \notin {"idle", "hash", "done"}

\* What a call that ran _executeWithRetry itself settled with is its own,
\* and a response comes from a transport call of its own.
OwnExecutionOwnResult ==
  \A x \in Req :
    (req[x].pc = "done" /\ req[x].owner = 0)
      => /\ req[x].res.by = x
         /\ req[x].res.state = "fulfilled" => req[x].calls.transport >= 1

\* C29: when the call that inserted a dedup key settles, fulfilled or
\* rejected, the key is not in the dedup map any more; so an identical
\* eligible call made afterwards is never handed the settled promise: it
\* runs on its own, with a transport call of its own, or shares the run of
\* a call that is still in flight.
C29_SettledKeyLeavesTheMap ==
  /\ [](EntriesAreInFlight /\ OwnExecutionOwnResult)
  /\ [][SettlementRemovesKey /\ LookupStartsAfresh]_vars

\* With the map at its size in the source (nothing is evicted), a call
\* that inserted its key was rejected, and an identical eligible call that
\* inserted the key again has a response from a transport call of its own.
C29_Witness ==
  /\ capacity.dedupe = MAX_DEDUPE_MAP_SIZE
  /\ \E r, x \in Req :
       /\ r # x /\ Identical(r, x) /\ Eligible(x)
       /\ req[r].pc = "done" /\ req[r].registered /\ req[r].owner = 0
       /\ req[r].res.state = "rejected"
       /\ req[x].pc = "done" /\ req[x].registered /\ req[x].owner = 0
       /\ req[x].res.state = "fulfilled" /\ req[x].res.by = x
       /\ req[x].calls.transport = 1
       /\ ~DedupeHas(client[req[r].opts.client].dedupeMap, dedupeKeyOf(req[r]))


\* The keys of a dedup map
KeysOf(map) == {map[i].key : i \in 1..Len(map)}

\* The key that was inserted earliest among those of the map, by the
\* set() calls that inserted them
Earliest(map, insertedAt) ==
  CHOOSE k \in KeysOf(map) : \A k2 \in KeysOf(map) : insertedAt[k] <= insertedAt[k2]

\* What the last set() did: on a full map the entry inserted earliest is
\* gone and every other entry is kept, on any other map every entry is
\* kept; then the key holds the promise of the call.
SetEvictsOldestOnly ==
  history.set # None =>
    LET call == Get(history.set)
        map == client["A"].dedupeMap
        kept == IF Len(call.before) >= capacity.dedupe
                THEN KeysOf(call.before) \ {Earliest(call.before, call.insertedAt)}
                ELSE KeysOf(call.before)
    IN /\ KeysOf(map) = kept \cup {call.key}
       /\ \A i \in 1..Len(map) :
            IF map[i].key = call.key THEN map[i].owner = call.promise
            ELSE \E j \in 1..Len(call.before) : call.before[j] = map[i]
       /\ Len(map) = Cardinality(KeysOf(map))

\* C30: after any sequence of set() calls and settlements the dedup map
\* holds at most MAX_DEDUPE_MAP_SIZE entries (here: the size the map was
\* given), and a set() on a full map removes the entry inserted earliest
\* among those present, and no other, before it inserts the new one.
C30_BoundedFifoMap ==
  /\ Len(client["A"].dedupeMap) <= capacity.dedupe
  /\ SetEvictsOldestOnly

\* A set() on a full map of more than one entry, after a settlement had
\* made room and another key had been inserted: the entry inserted
\* earliest is gone and a later one is still there.
C30_Witness ==
  /\ history.set # None
  /\ LET call == Get(history.set)
     IN /\ Len(call.before) >= capacity.dedupe
        /\ Len(call.before) > 1
        /\ call.key \notin KeysOf(call.before)
        /\ Earliest(call.before, call.insertedAt) \notin KeysOf(client["A"].dedupeMap)
        /\ KeysOf(call.before) \cap KeysOf(client["A"].dedupeMap) # {}
        /\ Len(client["A"].dedupeMap) = capacity.dedupe

\* C31: the promise that withTimeout returns settles once, with whichever
\* of the given promise's settlement and the deadline comes first.  The
\* deadline first: the harness calls controller.abort() and the promise is
\* rejected with the timeout error that carries timeoutMs, whatever the
\* given promise does later.  The settlement first: the timer is
\* cancelled, the harness never calls controller.abort(), and the value or
\* the error is passed through.
C31_FirstOfSettlementAndDeadlineWins ==
  /\ [](LET w == history.harness
            ev == history.events
        IN /\ (ev = <<>>) <=> (w.settled = None)
           /\ (ev # <<>> /\ Head(ev) = "deadline")
                => /\ w.aborts = 1 /\ w.aborted
                   /\ w.settled = Some([state |-> "rejected", code |-> "TIMEOUT_ERROR",
                                        timeoutMs |-> w.timeoutMs])
           /\ (ev # <<>> /\ Head(ev) = "promise")
                => /\ w.aborts = 0 /\ w.timer = "cleared"
                   /\ w.settled = history.promise
                   /\ ev = <<"promise">>)
  /\ [][history.harness.settled # None
          => history'.harness.settled = history.harness.settled]_vars

\* The deadline came first and the given promise settled afterwards.
C31_Witness ==
  /\ history.events = <<"deadline", "promise">>
  /\ history.promise # None /\ Get(history.promise).state = "fulfilled"
  /\ Get(history.harness.settled).code = "TIMEOUT_ERROR"
  /\ history.harness.timeoutMs > 0

\* The delay before the cap, and capped: d = min(raw, max)
RawDelay ==
  CASE history.strategy = "fixed" -> history.baseDelayMs
    [] history.strategy = "linear" -> history.baseDelayMs * history.attempt
    [] OTHER -> history.baseDelayMs * 2^(history.attempt - 1)

CappedDelay == IF RawDelay <= history.maxDelayMs THEN RawDelay ELSE history.maxDelayMs

\* Without jitter computeDelay returns min(raw, max); it never returns
\* more than max.
DelayIsCapped ==
  history.returned # None
    => /\ Get(history.returned) <= history.maxDelayMs
       /\ ~history.jitter => Get(history.returned) = CappedDelay

\* C32 as stated: computeDelay returns min(raw, max) without jitter and
\* never more than max; with jitter the delay lies in
\* [floor(0.5*d), floor(d)) for d = min(raw, max).
C32_DelayCappedJitterInHalfOpenRange ==
  /\ DelayIsCapped
  /\ (history.returned # None /\ history.jitter)
       => /\ CappedDelay \div 2 <= Get(history.returned)
          /\ Get(history.returned) < CappedDelay

\* C32, amended: the same, and with jitter the delay lies in
\* [floor(0.5*d), floor(d)) when d >= 1 and is 0 when d = 0.
C32_DelayCappedJitterBelowUnlessZero ==
  /\ DelayIsCapped
  /\ (history.returned # None /\ history.jitter)
       => /\ CappedDelay \div 2 <= Get(history.returned)
          /\ IF CappedDelay = 0 THEN Get(history.returned) = 0
             ELSE Get(history.returned) < CappedDelay

\* An exponential delay that the cap cut down, returned with jitter from
\* the upper half of its range.
C32_Witness ==
  /\ history.returned # None
  /\ history.strategy = "exponential" /\ history.jitter
  /\ RawDelay > history.maxDelayMs
  /\ Get(history.returned) > CappedDelay \div 2
  /\ Get(history.returned) < CappedDelay

\* C33: the breaker never becomes permanently rejecting: each admitted
\* attempt is followed by one recordSuccess() or recordFailure() before
\* its call settles, so when no call of a client is in progress its
\* breaker is not HALF_OPEN with all of halfOpenMaxCalls used up (a state
\* that no check() leaves: every later call is rejected).
C33_BreakerNotLeftExhausted ==
  \A c \in DOMAIN client :
    (\A r \in Req : req[r].pc \in {"idle", "done"})
      => ~(/\ client[c].circuitBreaker.state = "HALF_OPEN"
           /\ client[c].circuitBreaker.halfOpenCalls
                >= config[c].circuitBreaker.halfOpenMaxCalls)

\* C34: the breaker goes from HALF_OPEN to CLOSED only by the success of
\* an attempt that check() admitted while the breaker was HALF_OPEN (or
\* that took it there): the attempt whose body has just been read was not
\* admitted while the breaker was CLOSED.
C34_OnlyProbesCloseTheBreaker ==
  [][\A c \in DOMAIN client :
       (/\ client[c].circuitBreaker.state = "HALF_OPEN"
        /\ client'[c].circuitBreaker.state = "CLOSED")
         => \E r \in Req :
              /\ req[r].opts.client = c
              /\ req[r].pc = "decode" /\ req'[r].pc # "decode"
              /\ req[r].gate \in {"due", "HALF_OPEN"}]_vars

\* C35: in idempotent mode, for a call without an idempotencyKey of the
\* caller's, every attempt after the first carries the Idempotency-Key
\* that the attempt before it carried.
C35_RetriesCarryTheSameKey ==
  [][\A r \in Req :
       (/\ Conf(req[r]).protocolMode = "idempotent"
        /\ req[r].opts.idempotencyKey = None
        /\ req[r].pc = "before" /\ req'[r].pc \in {"integrity", "transport"}
        /\ req[r].ctx.attempt >= 2)
         => req'[r].idemKey = req[r].idemKey]_vars

\* C36: the dedup map entry of a call that is still in flight leaves the
\* map only by eviction, when another call inserts a key into the full
\* map; the settlement of an older call with the same key does not remove
\* it.
C36_EntryOfCallInFlightOnlyEvicted ==
  [][\A c \in DOMAIN client : \A x \in Req :
       (/\ \E i \in 1..Len(client[c].dedupeMap) : client[c].dedupeMap[i].owner = x
        /\ \A i \in 1..Len(client'[c].dedupeMap) : client'[c].dedupeMap[i].owner # x
        /\ req'[x].pc \notin {"idle", "done"})
         => /\ Len(client[c].dedupeMap) >= capacity.dedupe
            /\ \E y \in Req \ {x} :
                 /\ req[y].pc = "hash" /\ req'[y].pc # "hash"
                 /\ req'[y].registered]_vars

\* C37: a call whose signal the caller aborted before an attempt began
\* (before request() was called, or before the attempt's controller was
\* created) gets no response out of that attempt: it never ends in
\* SUCCESS.
C37_AbortedBeforeAttemptNeverSucceeds ==
  \A r \in Req :
    (/\ req[r].aborted
     /\ req[r].abortedAt \in {"idle", "hash", "before", "retryHook", "backoff"})
      => req[r].machine # "SUCCESS"

\* C38: a recordFailure() on an OPEN breaker (the step that counts one
\* more failure) leaves the breaker OPEN with the lastOpenedAt it had.
C38_LateFailureKeepsLastOpenedAt ==
  [][\A c \in DOMAIN client :
       (/\ client[c].circuitBreaker.state = "OPEN"
        /\ client'[c].circuitBreaker.failures = client[c].circuitBreaker.failures + 1)
         => /\ client'[c].circuitBreaker.state = "OPEN"
            /\ client'[c].circuitBreaker.lastOpenedAt
                 = client[c].circuitBreaker.lastOpenedAt]_vars

\* C39: in every state of the breaker, after any sequence of check,
\* recordSuccess and recordFailure: CLOSED, the failure counter is below
\* failureThreshold; OPEN or HALF_OPEN, it is at least failureThreshold;
\* halfOpenCalls is at most halfOpenMaxCalls.
C39_BreakerCountersMatchState ==
  LET b == client["A"].circuitBreaker
      conf == config["A"].circuitBreaker
  IN /\ b.state = "CLOSED" => b.failures < conf.failureThreshold
     /\ b.state \in {"OPEN", "HALF_OPEN"} => b.failures >= conf.failureThreshold
     /\ b.halfOpenCalls <= conf.halfOpenMaxCalls
     /\ b.halfOpenCalls >= 0 /\ b.failures >= 0

\* A breaker that opened, counted a late failure, went to HALF_OPEN with
\* all its calls admitted, and one that closed again after that.
C39_Witness ==
  LET b == client["A"].circuitBreaker
      conf == config["A"].circuitBreaker
  IN /\ conf.halfOpenMaxCalls > 1
     /\ b.halfOpenCalls = conf.halfOpenMaxCalls
     /\ \/ b.state = "HALF_OPEN" /\ b.failures > conf.failureThreshold
        \/ b.state = "CLOSED" /\ b.failures > 0

\* C40: no call ever asks its state machine for a transition that the
\* table does not allow (the transition that throws the
\* deterministic-state error), whatever the attempts end with and
\* whatever the retry configuration.
C40_NoIllegalTransition ==
  \A r \in Req : ~req[r].illegal

\* A call went PENDING, RETRYING, PENDING and, its last attempt failed
\* as well, ERROR: every transition it asked for was allowed.
C40_Witness ==
  \E r \in Req :
    /\ req[r].pc = "done" /\ req[r].attempt >= 2
    /\ req[r].res.code = "RETRY_EXHAUSTED"
    /\ req[r].machine = "ERROR"
    /\ ~req[r].illegal

====
